---- MODULE Spec2Model ----
(***************************************************************************)
(* Email OS core: the orchestrator's state machine, the insight bus, the   *)
(* classify agent and the seed agent, modelled from the TypeScript and     *)
(* JavaScript sources.                                                     *)
(*                                                                         *)
(* Time is in milliseconds since the start of the run.  An ISO timestamp   *)
(* string carries exactly the millisecond value of the Date it was made    *)
(* from, so a timestamp is represented by that millisecond value.          *)
(***************************************************************************)
EXTENDS Integers, Sequences, FiniteSets, TLC

VARIABLES
    state,          \* StateMachine.state
    history,        \* StateMachine.history
    errorCount,     \* StateMachine.errorCount
    lastError,      \* StateMachine.lastError
    startTime,      \* StateMachine.startTime
    bus,            \* InsightBus: events, counter, subscribers
    busImpl,        \* which InsightBus is linked in: "ts" or "js"
    delivered,      \* handler invocations made by the last publish, in order
    lastCall,       \* the operation that ran last, its argument and result
    now,            \* the clock (Date.now())
    pc,             \* position of runSync between its awaits
    runs,           \* number of runSync calls made so far
    syncFrom,       \* the state the machine was in when runSync was called
    classifier,     \* ClassifyAgent: senderHistory, subjectHistory, classifications, stats, llmEnabled
    inbox,          \* the emails handed to the classifier
    produced,       \* what the last classify call returned (empty if it threw)
    batch,          \* what the last batchClassify call returned
    trace,          \* what the last classify call did: keyword signals, LLM consulted, thrown
    seeds,          \* SeedAgent.seeds
    seedCounter,    \* SeedAgent.seedCounter
    config,         \* config.seeds.shelfLife: the shelf-life string of each seed type
    dbAvailable,    \* isDbAvailable(): whether DATABASE_URL was set when the process started
    dbSeeds,        \* the rows of the seeds table
    insight,        \* InsightAgent: threads, insights
    insightImpl,    \* which InsightAgent is linked in: "ts" or "js"
    mirror,         \* MirrorAgent: reviews, evolutionLog, cycleCount, reviewCycle
    limiter,        \* RateLimiter: maxPerMinute, minGapMs, lastCall
    waits           \* the wait() calls on the limiter: who sleeps until when, when calls returned

smVars == <<state, history, errorCount, lastError, startTime>>
busVars == <<bus, busImpl, delivered>>
syncVars == <<pc, runs, syncFrom>>
classifyVars == <<classifier, inbox, produced, batch, trace>>
seedVars == <<seeds, seedCounter, config, dbAvailable, dbSeeds>>
insightVars == <<insight, insightImpl>>
mirrorVars == <<mirror>>
limiterVars == <<limiter, waits>>
vars == <<state, history, errorCount, lastError, startTime, bus, busImpl,
          delivered, lastCall, now, pc, runs, syncFrom,
          classifier, inbox, produced, batch, trace, seeds, seedCounter, config,
          dbAvailable, dbSeeds, insight, insightImpl, mirror, limiter, waits>>

----------------------------------------------------------------------------
(* Bounds *)

MaxEvents == 5
MaxSubs == 2
MaxPublish == 2
MaxRuns == 3
MaxHits == 1
MaxPositives == 2
MaxDup == 2
MaxBatch == 2
MaxBatches == 1
MaxSeeds == 2
MaxTick == 1
MaxAdvances == 2
MaxCycles == 4
MaxSeedReviews == 2
MaxMessages == 3
MaxInsights == 3
MaxInsightAdvances == 2
MaxSinkOps == 2
MaxSeedEvents == 4
MaxWaits == 3
MaxLimiterTicks == 8

----------------------------------------------------------------------------
(* Helpers for JavaScript arrays *)

includes(arr, x) == \E i \in 1..Len(arr) : arr[i] = x

indexOf(arr, x) ==
    IF includes(arr, x)
    THEN CHOOSE i \in 1..Len(arr) : arr[i] = x /\ \A j \in 1..(i-1) : arr[j] # x
    ELSE 0

lastIndexOf(arr, x) ==
    IF includes(arr, x)
    THEN CHOOSE i \in 1..Len(arr) : arr[i] = x /\ \A j \in (i+1)..Len(arr) : arr[j] # x
    ELSE 0

removeAt(arr, i) == SubSeq(arr, 1, i-1) \o SubSeq(arr, i+1, Len(arr))

sliceLast(arr, n) ==
    IF Len(arr) > n THEN SubSeq(arr, Len(arr) - n + 1, Len(arr)) ELSE arr

----------------------------------------------------------------------------
(* Insight bus *)

maxHistory == 1000

\* Event types that are published, the keys handlers subscribe under, and the
\* handlers: two that return and one that throws.
EventTypes == {"a", "b"}
SubTypes == {"a", "*"}
Handlers ==
    {[name |-> "ok1", throws |-> FALSE],
     [name |-> "ok2", throws |-> FALSE],
     [name |-> "bad", throws |-> TRUE]}

NoSubscribers == [t \in {"*"} |-> <<>>]

\* order is not a field of the bus: it records the subscriptions that are in
\* force, in the order the subscribe calls were made.
BusNew == [events |-> <<>>, counter |-> 0, subscribers |-> NoSubscribers, order |-> <<>>]

handlersOf(b, type) ==
    IF type \in DOMAIN b.subscribers THEN b.subscribers[type] ELSE <<>>

\* Mutant: the wildcard handlers are called before the handlers of the type.
dispatchList_wildcardFirst(b, type) == handlersOf(b, "*") \o handlersOf(b, type)

\* The handlers a published event is handed to, in the order they are called.
\* TypeScript bus: [...handlers, ...wildcardHandlers], each call in try/catch.
\* JavaScript bus: emit(event) then emit('*'); EventEmitter.emit stops at the
\* first listener that throws and rethrows to the caller.
dispatchList(b, type) == handlersOf(b, type) \o handlersOf(b, "*")

firstThrower(hs) ==
    IF \E i \in 1..Len(hs) : hs[i].throws
    THEN CHOOSE i \in 1..Len(hs) : hs[i].throws /\ \A j \in 1..(i-1) : ~hs[j].throws
    ELSE 0

invokedHandlers(impl, hs) ==
    IF impl = "ts" \/ firstThrower(hs) = 0
    THEN hs
    ELSE SubSeq(hs, 1, firstThrower(hs))

publishThrows(impl, hs) == impl = "js" /\ firstThrower(hs) # 0

\* bus.publish(agent, type, data): the bus after the call, the handlers that
\* were invoked, and whether the call threw to the publisher.
publish(impl, b, agent, type, data) ==
    LET event == [id |-> b.counter + 1, agent |-> agent, type |-> type, data |-> data]
        hs == dispatchList(b, type)
    IN  [bus |-> [b EXCEPT !.counter = b.counter + 1,
                           !.events = sliceLast(Append(b.events, event), maxHistory)],
         invoked |-> invokedHandlers(impl, hs),
         threw |-> publishThrows(impl, hs)]

subscribe(b, type, handler) ==
    [b EXCEPT !.subscribers =
        [t \in (DOMAIN b.subscribers) \cup {type} |->
            IF t = type THEN Append(handlersOf(b, t), handler) ELSE handlersOf(b, t)],
              !.order = Append(@, [type |-> type, handler |-> handler])]

\* The position in b.order of the i-th subscription made under the type.
orderIndex(b, type, i) ==
    CHOOSE k \in 1..Len(b.order) :
        /\ b.order[k].type = type
        /\ Cardinality({j \in 1..k : b.order[j].type = type}) = i

\* The unsubscribe closure: the TypeScript bus splices the first occurrence
\* of the handler, EventEmitter.off removes the most recently added one.
unsubscribe(impl, b, type, handler) ==
    LET hs == handlersOf(b, type)
        i == IF impl = "ts" THEN indexOf(hs, handler) ELSE lastIndexOf(hs, handler)
    IN  IF i = 0 THEN b
        ELSE [b EXCEPT !.subscribers[type] = removeAt(hs, i),
                       !.order = removeAt(@, orderIndex(b, type, i))]

lastEvent(b) == b.events[Len(b.events)]

----------------------------------------------------------------------------
(* Classify agent *)

Zones == {"red", "yellow", "green"}

\* An email as the signal detector sees it: which pattern lists match its
\* text, what the scan of VIP_PRECISION_RULES ends in ("none": no rule, "domain":
\* a rule without subject filter, a zone: a rule with a matching subject
\* filter), how many urgency keywords of each level match, the Gmail flags,
\* the sender and the duplicate-detection key.  A malformed email is one whose
\* fields make detectSignals throw before it touches any state.
Senders == {"s1", "s2"}
DedupKeys == {"k1", "k2"}

Sig(type) == [type |-> type, level |-> "", count |-> 0, zone |-> ""]

opt(cond, x) == IF cond THEN <<x>> ELSE <<>>

rep(n, x) == [i \in 1..n |-> x]

min(a, b) == IF a < b THEN a ELSE b

max(a, b) == IF a > b THEN a ELSE b

FrequentAfter == 5

\* detectSignals(email): the signal list, the forced zone ("" if none) and the
\* two frequency maps after the call.
detectSignals(email, senderHistory, subjectHistory) ==
    LET vipSignals ==
            IF email.vip \in Zones
            THEN <<[Sig("vip-precision") EXCEPT !.zone = email.vip]>>
            ELSE opt(email.vip = "domain", Sig("vip-sender"))
        dupCount == subjectHistory[email.key]
        senderCount == senderHistory[email.sender]
    IN  IF email.vip \in Zones
        THEN [signals |-> vipSignals, forcedZone |-> email.vip,
              senderHistory |-> senderHistory, subjectHistory |-> subjectHistory]
        ELSE [signals |->
                vipSignals
                \o opt(email.newsletter, Sig("newsletter"))
                \o opt(email.seasonal, Sig("seasonal-greeting"))
                \o opt(email.autoNotif, Sig("auto-notification"))
                \o opt(email.marketing, Sig("marketing"))
                \o opt(dupCount > 0, [Sig("duplicate") EXCEPT !.count = dupCount + 1])
                \o opt(email.action, Sig("action-required"))
                \o rep(email.high, [Sig("urgency") EXCEPT !.level = "high"])
                \o rep(email.medium, [Sig("urgency") EXCEPT !.level = "medium"])
                \o rep(email.low, [Sig("urgency") EXCEPT !.level = "low"])
                \o opt(email.legacyVip, Sig("vip-sender"))
                \o opt(email.important, Sig("gmail-important"))
                \o opt(email.starred, Sig("gmail-starred"))
                \o opt(email.reply, Sig("thread-reply"))
                \o opt(senderCount > FrequentAfter,
                       [Sig("frequent-sender") EXCEPT !.count = senderCount]),
              forcedZone |-> "",
              senderHistory |-> [senderHistory EXCEPT ![email.sender] = senderCount + 1],
              subjectHistory |-> [subjectHistory EXCEPT ![email.key] = dupCount + 1]]

\* Mutant: the canonical score of yellow lies below the yellow band.
zoneToScore_lowYellow(zone) ==
    CASE zone = "red" -> 85
      [] zone = "yellow" -> 40
      [] zone = "green" -> 30
      [] OTHER -> 50

zoneToScore(zone) ==
    CASE zone = "red" -> 85
      [] zone = "yellow" -> 60
      [] zone = "green" -> 30
      [] OTHER -> 50

scoreToZone(score) ==
    IF score >= 75 THEN "red"
    ELSE IF score >= 45 THEN "yellow"
    ELSE "green"

NegativeTypes ==
    {"newsletter", "seasonal-greeting", "auto-notification", "marketing", "duplicate"}

signalWeight(signal) ==
    CASE signal.type = "action-required" -> 40
      [] signal.type = "urgency" ->
            (IF signal.level = "high" THEN 25
             ELSE IF signal.level = "medium" THEN 10 ELSE -5)
      [] signal.type = "vip-sender" -> 15
      [] signal.type = "gmail-important" -> 5
      [] signal.type = "gmail-starred" -> 15
      [] signal.type = "thread-reply" -> 10
      [] signal.type = "frequent-sender" -> min(signal.count, 5)
      [] signal.type = "newsletter" -> -30
      [] signal.type = "seasonal-greeting" -> -40
      [] signal.type = "auto-notification" -> -25
      [] signal.type = "marketing" -> -20
      [] signal.type = "duplicate" -> (IF signal.count >= 3 THEN -35 ELSE -20)
      [] OTHER -> 0

sumWeights(signals) ==
    LET acc[i \in 0..Len(signals)] ==
            IF i = 0 THEN 50 ELSE acc[i-1] + signalWeight(signals[i])
    IN  acc[Len(signals)]

\* Mutant: the override rule is left out.
calculateScore_noOverride(signals, forcedZone) ==
    IF forcedZone # ""
    THEN zoneToScore(forcedZone)
    ELSE max(0, min(100, sumWeights(signals)))

calculateScore(signals, forcedZone) ==
    IF forcedZone # ""
    THEN zoneToScore(forcedZone)
    ELSE LET score == sumWeights(signals)
             hasNegative == \E i \in 1..Len(signals) : signals[i].type \in NegativeTypes
             hasAction == \E i \in 1..Len(signals) : signals[i].type = "action-required"
             overridden == IF hasNegative /\ hasAction THEN max(score, 75) ELSE score
         IN  max(0, min(100, overridden))

\* Confidence in hundredths: 0.3, 0.9, 0.5 + 0.15 n.  In IEEE doubles
\* 0.5 + 2 * 0.15 is exactly the double 0.8, so ">= 0.8" is ">= 80" here.
\* Mutant: each signal adds 0.10 instead of 0.15.
calculateConfidence_smallStep(signals) ==
    IF Len(signals) = 0 THEN 30
    ELSE IF Len(signals) >= 3 THEN 90
    ELSE 50 + Len(signals) * 10

calculateConfidence(signals) ==
    IF Len(signals) = 0 THEN 30
    ELSE IF Len(signals) >= 3 THEN 90
    ELSE 50 + Len(signals) * 15

\* What llm.chat does for one call: it throws, or returns content that is
\* not JSON, or returns a JSON object with a zone (possibly outside the three
\* zones), a confidence (0: absent) and a list of signal labels.
LLMOutcomes ==
    {[kind |-> "throw", zone |-> "", confidence |-> 0, signals |-> <<>>],
     [kind |-> "badjson", zone |-> "", confidence |-> 0, signals |-> <<>>]}
    \cup {[kind |-> "json", zone |-> z, confidence |-> 0, signals |-> <<>>] :
            z \in Zones \cup {"purple"}}
    \cup {[kind |-> "json", zone |-> z, confidence |-> 40, signals |-> <<"llm-hint">>] :
            z \in Zones \cup {"purple"}}

\* classifyWithLLM: ok with the parsed answer, or thrown.
classifyWithLLM(llm) ==
    IF llm.kind = "json" /\ llm.zone \in {"red", "yellow", "green"}
    THEN [ok |-> TRUE, zone |-> llm.zone,
          confidence |-> min(100, max(0, IF llm.confidence = 0 THEN 80 ELSE llm.confidence)),
          signals |-> llm.signals]
    ELSE [ok |-> FALSE, zone |-> "", confidence |-> 0, signals |-> <<>>]

\* _makeResult: builds the Classification, appends it to the log and
\* publishes email.classified.
makeResult(c, b, impl, email, zone, score, confidence, signals, method) ==
    LET result == [emailId |-> email.id, zone |-> zone, score |-> score,
                   confidence |-> confidence, signals |-> signals, method |-> method]
    IN  [classifier |-> [c EXCEPT !.classifications = Append(@, result)],
         bus |-> publish(impl, b, "classify", "email.classified",
                         [emailId |-> email.id, zone |-> zone, confidence |-> confidence,
                          signals |-> Len(signals), method |-> method]).bus,
         result |-> result]

bump(stats, field) == [stats EXCEPT ![field] = @ + 1]

\* classify(email) after detectSignals returned d, with the answer the LLM
\* would give if asked.  A value that the code computes once and then uses
\* (const r = ...) is written CHOOSE ret \in {... r ... : r \in {value}} : TRUE.
classifySignals(c, b, impl, email, llm, d) ==
    LET c1 == [c EXCEPT !.senderHistory = d.senderHistory,
                        !.subjectHistory = d.subjectHistory]
        keywordScore == calculateScore(d.signals, d.forcedZone)
        keywordConfidence == calculateConfidence(d.signals)
        answer == classifyWithLLM(llm)
        keywordResult(cc) ==
            makeResult([cc EXCEPT !.stats = bump(@, "keyword")], b, impl, email,
                       scoreToZone(keywordScore), keywordScore, keywordConfidence,
                       d.signals, "keyword")
        llmResult ==
            makeResult([c1 EXCEPT !.stats = bump(@, "llm")], b, impl, email,
                       answer.zone, zoneToScore(answer.zone), answer.confidence,
                       d.signals \o [i \in 1..Len(answer.signals) |->
                                        [Sig(answer.signals[i]) EXCEPT !.level = "llm"]],
                       "llm")
        out(made, called) ==
            CHOOSE ret \in
                {[classifier |-> r.classifier, bus |-> r.bus, result |-> <<r.result>>,
                  threw |-> FALSE, llmCalled |-> called, signals |-> d.signals,
                  keywordScore |-> keywordScore, keywordConfidence |-> keywordConfidence] :
                    r \in {made}} : TRUE
    IN  IF keywordConfidence >= 80 THEN out(keywordResult(c1), FALSE)
        ELSE IF ~c.llmEnabled THEN out(keywordResult(c1), FALSE)
        ELSE IF answer.ok THEN out(llmResult, TRUE)
        ELSE out(keywordResult([c1 EXCEPT !.stats = bump(@, "fallback")]), TRUE)

\* classify(email) with the answer the LLM would give if asked.
classify(c, b, impl, email, llm) ==
    IF email.malformed
    THEN [classifier |-> c, bus |-> b, result |-> <<>>, threw |-> TRUE,
          llmCalled |-> FALSE, signals |-> <<>>, keywordScore |-> 0, keywordConfidence |-> 0]
    ELSE CHOOSE ret \in
            {classifySignals(c, b, impl, email, llm, d) :
                d \in {detectSignals(email, c.senderHistory, c.subjectHistory)}} : TRUE

\* Whether classify(email) gets as far as calling the LLM.
consultsLLM(c, email) ==
    /\ ~email.malformed
    /\ c.llmEnabled
    /\ calculateConfidence(detectSignals(email, c.senderHistory, c.subjectHistory).signals) < 80

NoAnswer == [kind |-> "none", zone |-> "", confidence |-> 0, signals |-> <<>>]

\* The answers the LLM can give during classify(email): any, if it is asked.
llmAnswers(c, email) == IF consultsLLM(c, email) THEN LLMOutcomes ELSE {NoAnswer}

EmptyBatch == [red |-> <<>>, yellow |-> <<>>, green |-> <<>>]

\* The Classification batchClassify gives an email whose classify call threw.
defaultClassification(email) ==
    [emailId |-> email.id, zone |-> "yellow", score |-> 50, confidence |-> 30,
     signals |-> <<>>, method |-> "fallback"]

\* One turn of the loop of batchClassify: classify the email, or on a throw
\* give it the default classification; push the entry onto its bucket.
batchStep(acc, impl, email, llm) ==
    CHOOSE ret \in
        {LET entry == [email |-> email,
                       classification |-> IF r.threw THEN defaultClassification(email)
                                          ELSE r.result[1]]
             bucket == IF r.threw THEN "yellow" ELSE r.result[1].zone
         IN  [classifier |-> r.classifier, bus |-> r.bus,
              results |-> [acc.results EXCEPT ![bucket] = Append(@, entry)]] :
            r \in {classify(acc.classifier, acc.bus, impl, email, llm)}} : TRUE

\* The loop of batchClassify over emails, llms[i] being the LLM's answer for
\* emails[i].
batchLoop(c, b, impl, emails, llms) ==
    LET acc[i \in 0..Len(emails)] ==
            IF i = 0 THEN [classifier |-> c, bus |-> b, results |-> EmptyBatch]
            ELSE CHOOSE ret \in {batchStep(prev, impl, emails[i], llms[i]) :
                                   prev \in {acc[i - 1]}} : TRUE
    IN  acc[Len(emails)]

\* Mutant: no try/catch around the classify call of one email.
batchClassify_noCatch(c, b, impl, emails, llms) ==
    IF \E i \in 1..Len(emails) : emails[i].malformed
    THEN [classifier |-> c, threw |-> TRUE, bus |-> b, results |-> EmptyBatch]
    ELSE CHOOSE ret \in
            {[classifier |-> r.classifier, threw |-> FALSE,
              bus |-> publish(impl, r.bus, "classify", "batch.classified",
                              [total |-> Len(emails), red |-> Len(r.results.red),
                               yellow |-> Len(r.results.yellow),
                               green |-> Len(r.results.green)]).bus,
              results |-> r.results] :
                r \in {batchLoop(c, b, impl, emails, llms)}} : TRUE

batchClassify(c, b, impl, emails, llms) ==
    CHOOSE ret \in
        {[classifier |-> r.classifier, threw |-> FALSE,
          bus |-> publish(impl, r.bus, "classify", "batch.classified",
                          [total |-> Len(emails), red |-> Len(r.results.red),
                           yellow |-> Len(r.results.yellow),
                           green |-> Len(r.results.green)]).bus,
          results |-> r.results] :
            r \in {batchLoop(c, b, impl, emails, llms)}} : TRUE

ClassifierNew(llmEnabled) ==
    [senderHistory |-> [s \in Senders |-> 0],
     subjectHistory |-> [k \in DedupKeys |-> 0],
     classifications |-> <<>>,
     stats |-> [keyword |-> 0, llm |-> 0, fallback |-> 0],
     llmEnabled |-> llmEnabled]

NoTrace ==
    [threw |-> FALSE, llmCalled |-> FALSE, signals |-> <<>>,
     keywordScore |-> 0, keywordConfidence |-> 0, llm |-> NoAnswer]

ClassifierIdle ==
    /\ classifier = ClassifierNew(TRUE)
    /\ inbox = <<>>
    /\ produced = <<>>
    /\ batch = EmptyBatch
    /\ trace = NoTrace

----------------------------------------------------------------------------
(* Seed agent *)

SeedTypes == {"decision-needed", "opportunity", "follow-up", "relationship-build"}

HourMs == 3600000
DayMs == 86400000

\* shelfLife.match(/^(\d+)(h|d)$/) on the strings a configuration holds: the
\* documented '2h', '1d', '7d', and one that does not match the pattern.
matchShelfLife(shelfLife) ==
    CASE shelfLife = "2h" -> [matched |-> TRUE, value |-> 2, unit |-> "h"]
      [] shelfLife = "1d" -> [matched |-> TRUE, value |-> 1, unit |-> "d"]
      [] shelfLife = "7d" -> [matched |-> TRUE, value |-> 7, unit |-> "d"]
      [] OTHER -> [matched |-> FALSE, value |-> 0, unit |-> ""]

\* calculateExpiry(shelfLife) when its "new Date()" reads the clock at t.
calculateExpiry(shelfLife, t) ==
    LET m == matchShelfLife(shelfLife)
    IN  IF ~m.matched THEN t + 7 * DayMs
        ELSE IF m.unit = "h" THEN t + m.value * HourMs
        ELSE t + m.value * DayMs

\* Two configurations: every type set to a documented value; one type missing
\* ("" is the absent entry) and one set to a string the pattern rejects.
Configs ==
    {[t \in SeedTypes |->
        CASE t = "decision-needed" -> "2h"
          [] t = "opportunity" -> "1d"
          [] t = "follow-up" -> "1d"
          [] t = "relationship-build" -> "7d"],
     [t \in SeedTypes |->
        CASE t = "decision-needed" -> "2h"
          [] t = "opportunity" -> ""
          [] t = "follow-up" -> "1w"
          [] t = "relationship-build" -> "7d"]}

\* The writes and reads a call makes on the persistence sink (the database,
\* or the JSON file) are numbered from 1 in the order the call makes them;
\* fails is the set of the numbers of those that throw.
NoFailure == {}

\* plant(email, type, classification).  calculateExpiry reads the clock first
\* (at t), plantedAt is a second reading taken elapsed milliseconds later.
\* The agent is [seeds, seedCounter, rows]; rows are the seeds table.
plant(agent, dbOn, cfg, b, impl, email, type, classification, t, elapsed, fails) ==
    LET shelfLife == IF cfg[type] # "" THEN cfg[type] ELSE "7d"
        expiresAt == calculateExpiry(shelfLife, t)
        seed == [id |-> agent.seedCounter + 1,
                 type |-> type,
                 status |-> "planted",
                 emailId |-> email.id,
                 zone |-> classification.zone,
                 score |-> classification.score,
                 shelfLife |-> shelfLife,
                 plantedAt |-> t + elapsed,
                 expiresAt |-> expiresAt,
                 escalated |-> FALSE,
                 harvestedAt |-> -1,
                 outcome |-> ""]
        pushed == [agent EXCEPT !.seeds = Append(@, seed), !.seedCounter = @ + 1]
        conflict == \E i \in 1..Len(agent.rows) : agent.rows[i].id = seed.id
        inserted == IF 1 \in fails \/ conflict THEN pushed
                    ELSE [pushed EXCEPT !.rows = Append(@, seed)]
    IN  IF ~dbOn /\ 1 \in fails
        THEN [agent |-> pushed, bus |-> b, seed |-> seed, threw |-> TRUE]
        ELSE [agent |-> IF dbOn THEN inserted ELSE pushed,
              bus |-> publish(impl, b, "seed", "seed.planted",
                              [seedId |-> seed.id, type |-> type, zone |-> classification.zone,
                               expiresAt |-> expiresAt]).bus,
              seed |-> seed,
              threw |-> FALSE]

\* Math.round(remaining / 60000)
roundMinutes(remaining) == (2 * remaining + 60000) \div 120000

\* Mutant: a seed is due only once its whole shelf life is over.
pastHalfLife_atExpiry(seed, t) == seed.expiresAt - t < 0

\* remaining < halfLife, for a check made at t.
pastHalfLife(seed, t) == 2 * (seed.expiresAt - t) < seed.expiresAt - seed.plantedAt

\* Mutant: the seeds that are escalated again, whatever their escalated flag.
eligible_anyPlanted(seed) == seed.status = "planted"

\* The seeds the loop looks at: planted and not yet escalated (line 140, and
\* the where clause of lines 110-113).
eligible(seed) == seed.status = "planted" /\ ~seed.escalated

\* checkEscalation(), in-memory branch (lines 138-155): the loop over
\* this.seeds, then one file write if anything was escalated.
checkEscalationMemory(agent, b, impl, t, fails) ==
    LET step(acc, seed, i) ==
            IF ~eligible(seed) \/ ~pastHalfLife(seed, t)
            THEN acc
            ELSE [seeds |-> [acc.seeds EXCEPT ![i] = [seed EXCEPT !.escalated = TRUE, !.zone = "red"]],
                  escalated |-> Append(acc.escalated, [seed EXCEPT !.escalated = TRUE, !.zone = "red"]),
                  bus |-> publish(impl, acc.bus, "seed", "seed.escalated",
                                  [seedId |-> seed.id, type |-> seed.type,
                                   remaining |-> roundMinutes(seed.expiresAt - t)]).bus]
        acc[i \in 0..Len(agent.seeds)] ==
            IF i = 0 THEN [seeds |-> agent.seeds, escalated |-> <<>>, bus |-> b]
            ELSE CHOOSE ret \in {step(prev, prev.seeds[i], i) : prev \in {acc[i - 1]}} : TRUE
    IN  CHOOSE ret \in
            {[agent |-> [agent EXCEPT !.seeds = r.seeds], bus |-> r.bus,
              escalated |-> r.escalated,
              threw |-> Len(r.escalated) > 0 /\ 1 \in fails] :
                r \in {acc[Len(agent.seeds)]}} : TRUE

\* checkEscalation(), database branch (lines 107-136): the select is sink
\* operation 1 and the k-th update is operation k + 1; whichever throws ends
\* the branch in its catch.
checkEscalationDb(agent, b, impl, t, fails) ==
    LET step(acc, row, i) ==
            IF acc.aborted \/ ~eligible(row) \/ ~pastHalfLife(row, t)
            THEN acc
            ELSE IF (acc.ops + 1) \in fails
            THEN [acc EXCEPT !.aborted = TRUE]
            ELSE [rows |-> [acc.rows EXCEPT ![i] = [row EXCEPT !.escalated = TRUE, !.zone = "red"]],
                  escalated |-> Append(acc.escalated, [row EXCEPT !.escalated = TRUE, !.zone = "red"]),
                  bus |-> publish(impl, acc.bus, "seed", "seed.escalated",
                                  [seedId |-> row.id, type |-> row.type,
                                   remaining |-> roundMinutes(row.expiresAt - t)]).bus,
                  ops |-> acc.ops + 1,
                  aborted |-> FALSE]
        acc[i \in 0..Len(agent.rows)] ==
            IF i = 0
            THEN [rows |-> agent.rows, escalated |-> <<>>, bus |-> b, ops |-> 1, aborted |-> FALSE]
            ELSE CHOOSE ret \in {step(prev, agent.rows[i], i) : prev \in {acc[i - 1]}} : TRUE
    IN  IF 1 \in fails
        THEN [agent |-> agent, bus |-> b, escalated |-> <<>>, threw |-> FALSE]
        ELSE CHOOSE ret \in
                {[agent |-> [agent EXCEPT !.rows = r.rows], bus |-> r.bus,
                  escalated |-> r.escalated, threw |-> FALSE] :
                    r \in {acc[Len(agent.rows)]}} : TRUE

checkEscalation(agent, dbOn, b, impl, t, fails) ==
    IF dbOn THEN checkEscalationDb(agent, b, impl, t, fails)
    ELSE checkEscalationMemory(agent, b, impl, t, fails)

\* Array.prototype.find(s => s.id === seedId): the index, 0 if there is none.
findSeed(arr, seedId) ==
    IF \E i \in 1..Len(arr) : arr[i].id = seedId
    THEN CHOOSE i \in 1..Len(arr) : arr[i].id = seedId /\ \A j \in 1..(i - 1) : arr[j].id # seedId
    ELSE 0

\* harvest(seedId, outcome), lines 183-193: the in-memory seed; the file
\* write is sink operation fileOp.
harvestMemory(agent, b, impl, seedId, outcome, t, fails, fileOp) ==
    LET i == findSeed(agent.seeds, seedId)
        seed == [agent.seeds[i] EXCEPT !.status = "harvested", !.harvestedAt = t,
                                       !.outcome = outcome]
        changed == [agent EXCEPT !.seeds[i] = seed]
    IN  IF i = 0 THEN [agent |-> agent, bus |-> b, ret |-> <<>>, threw |-> FALSE]
        ELSE IF fileOp \in fails THEN [agent |-> changed, bus |-> b, ret |-> <<>>, threw |-> TRUE]
        ELSE [agent |-> changed,
              bus |-> publish(impl, b, "seed", "seed.harvested",
                              [seedId |-> seedId, type |-> seed.type,
                               duration |-> t - seed.plantedAt]).bus,
              ret |-> <<seed>>, threw |-> FALSE]

\* harvest(seedId, outcome).  With a database the update (sink operation 1)
\* decides: the row it returns, or null; if it throws, the in-memory branch
\* runs and its file write is sink operation 2.
harvest(agent, dbOn, b, impl, seedId, outcome, t, fails) ==
    LET i == findSeed(agent.rows, seedId)
        row == [agent.rows[i] EXCEPT !.status = "harvested", !.harvestedAt = t,
                                     !.outcome = outcome]
    IN  IF ~dbOn THEN harvestMemory(agent, b, impl, seedId, outcome, t, fails, 1)
        ELSE IF 1 \in fails THEN harvestMemory(agent, b, impl, seedId, outcome, t, fails, 2)
        ELSE IF i = 0 THEN [agent |-> agent, bus |-> b, ret |-> <<>>, threw |-> FALSE]
        ELSE [agent |-> [agent EXCEPT !.rows[i] = row],
              bus |-> publish(impl, b, "seed", "seed.harvested",
                              [seedId |-> seedId, type |-> row.type,
                               duration |-> t - row.plantedAt]).bus,
              ret |-> <<row>>, threw |-> FALSE]

\* Mutant: a planted seed whose expiresAt has passed no longer counts as planted.
plantedOnly_unexpired(arr) ==
    LET acc[i \in 0..Len(arr)] ==
            IF i = 0 THEN <<>>
            ELSE IF arr[i].status = "planted" /\ arr[i].expiresAt > now
                 THEN Append(acc[i - 1], arr[i]) ELSE acc[i - 1]
    IN  acc[Len(arr)]

\* Array.prototype.filter(s => s.status === 'planted')
plantedOnly(arr) ==
    LET acc[i \in 0..Len(arr)] ==
            IF i = 0 THEN <<>>
            ELSE IF arr[i].status = "planted" THEN Append(acc[i - 1], arr[i]) ELSE acc[i - 1]
    IN  acc[Len(arr)]

\* The comparator of getActive (lines 206-209).
compareSeeds(a, b) ==
    IF a.zone # b.zone THEN (IF a.zone = "red" THEN -1 ELSE 1)
    ELSE a.expiresAt - b.expiresAt

\* orderBy(asc(expiresAt)): the comparison the database orders rows by.
compareExpiry(a, b) == a.expiresAt - b.expiresAt

compareBy(byZone, a, b) == IF byZone THEN compareSeeds(a, b) ELSE compareExpiry(a, b)

reverse(arr) == [i \in 1..Len(arr) |-> arr[Len(arr) + 1 - i]]

insertAt(arr, i, x) == SubSeq(arr, 1, i - 1) \o <<x>> \o SubSeq(arr, i, Len(arr))

\* Array.prototype.sort as V8 runs it on an array shorter than 64: the
\* leading run is found (and reversed if it strictly descends), then every
\* later element is put in place by binary insertion.
RECURSIVE runLength(_, _, _, _)
runLength(byZone, arr, descending, idx) ==
    IF idx > Len(arr) THEN Len(arr)
    ELSE IF descending /\ compareBy(byZone, arr[idx], arr[idx - 1]) >= 0 THEN idx - 1
    ELSE IF ~descending /\ compareBy(byZone, arr[idx], arr[idx - 1]) < 0 THEN idx - 1
    ELSE runLength(byZone, arr, descending, idx + 1)

RECURSIVE insertionPoint(_, _, _, _, _)
insertionPoint(byZone, arr, pivot, left, right) ==
    IF left >= right THEN left
    ELSE LET mid == left + ((right - left) \div 2)
         IN  IF compareBy(byZone, pivot, arr[mid]) < 0
             THEN insertionPoint(byZone, arr, pivot, left, mid)
             ELSE insertionPoint(byZone, arr, pivot, mid + 1, right)

RECURSIVE binaryInsertionSort(_, _, _)
binaryInsertionSort(byZone, arr, start) ==
    IF start > Len(arr) THEN arr
    ELSE binaryInsertionSort(byZone,
            insertAt(removeAt(arr, start), 
                     insertionPoint(byZone, arr, arr[start], 1, start), arr[start]),
            start + 1)

sortSeeds(byZone, arr) ==
    IF Len(arr) < 2 THEN arr
    ELSE LET descending == compareBy(byZone, arr[2], arr[1]) < 0
             run == runLength(byZone, arr, descending, 3)
             made == IF descending
                     THEN reverse(SubSeq(arr, 1, run)) \o SubSeq(arr, run + 1, Len(arr))
                     ELSE arr
         IN  binaryInsertionSort(byZone, made, run + 1)

\* getActive(): the planted rows in the database's order (the select is sink
\* operation 1), or the planted in-memory seeds sorted by the comparator.
getActive(agent, dbOn, fails) ==
    IF dbOn /\ 1 \notin fails
    THEN sortSeeds(FALSE, plantedOnly(agent.rows))
    ELSE sortSeeds(TRUE, plantedOnly(agent.seeds))

\* Array.prototype.filter(s => s.status === 'harvested')
harvestedOnly(arr) ==
    LET acc[i \in 0..Len(arr)] ==
            IF i = 0 THEN <<>>
            ELSE IF arr[i].status = "harvested" THEN Append(acc[i - 1], arr[i]) ELSE acc[i - 1]
    IN  acc[Len(arr)]

\* getStats() of the seed agent: over the rows of the table (the select is
\* sink operation 1), or over the in-memory seeds.
getSeedStats(agent, dbOn, fails) ==
    LET all == IF dbOn /\ 1 \notin fails THEN agent.rows ELSE agent.seeds
        active == plantedOnly(all)
    IN  [total |-> Len(all), active |-> Len(active),
         harvested |-> Len(harvestedOnly(all)),
         escalated |-> Cardinality({i \in 1..Len(active) : active[i].escalated})]

\* Mutant: the last rule (red and nothing else matched) is left out.
detectSeedType_noRedRule(email, classification) ==
    LET signals == classification.signals
        some(type, level) ==
            \E i \in 1..Len(signals) :
                signals[i].type = type /\ (level = "" \/ signals[i].level = level)
    IN  IF some("urgency", "high") THEN "decision-needed"
        ELSE IF some("vip-sender", "") \/ email.offer THEN "opportunity"
        ELSE IF email.reply \/ some("urgency", "medium") THEN "follow-up"
        ELSE IF some("frequent-sender", "") /\ classification.zone # "green"
             THEN "relationship-build"
        ELSE ""

\* detectSeedType(email, classification): "" is null.
detectSeedType(email, classification) ==
    LET signals == classification.signals
        some(type, level) ==
            \E i \in 1..Len(signals) :
                signals[i].type = type /\ (level = "" \/ signals[i].level = level)
    IN  IF some("urgency", "high") THEN "decision-needed"
        ELSE IF some("vip-sender", "") \/ email.offer THEN "opportunity"
        ELSE IF email.reply \/ some("urgency", "medium") THEN "follow-up"
        ELSE IF some("frequent-sender", "") /\ classification.zone # "green"
             THEN "relationship-build"
        ELSE IF classification.zone = "red" THEN "follow-up"
        ELSE ""

\* evaluate(email, classification): the seed planted, or none.
evaluate(agent, dbOn, cfg, b, impl, email, classification, t, elapsed, fails) ==
    LET seedType == detectSeedType(email, classification)
        none == [agent |-> agent, bus |-> b, seed |-> <<>>, threw |-> FALSE]
    IN  IF classification.zone = "green" /\ classification.confidence > 70 THEN none
        ELSE IF seedType = "" THEN none
        ELSE CHOOSE ret \in
                {[agent |-> r.agent, bus |-> r.bus, seed |-> <<r.seed>>, threw |-> r.threw] :
                    r \in {plant(agent, dbOn, cfg, b, impl, email, seedType, classification,
                                 t, elapsed, fails)}} : TRUE

SeedIdle ==
    /\ seeds = <<>>
    /\ seedCounter = 0
    /\ config \in Configs
    /\ dbAvailable = FALSE
    /\ dbSeeds = <<>>

----------------------------------------------------------------------------
(* Insight agent *)

\* Timestamps are milliseconds and, in every input tried, whole minutes, so
\* that the quotients below are exact.  velocity and temperature are kept
\* in hundredths.
MinuteMs == 60000

\* Math.round of a quotient of integers, the divisor positive.
roundDiv(a, b) == (2 * a + b) \div (2 * b)

\* The index of the thread in the Map, 0 if it has none.
findThread(threads, threadId) ==
    IF \E i \in 1..Len(threads) : threads[i].threadId = threadId
    THEN CHOOSE i \in 1..Len(threads) : threads[i].threadId = threadId
    ELSE 0

\* insight.ts, updateVelocity: messages / days between the earliest and the
\* latest message date, rounded to two decimals.
updateVelocityTs(thread) ==
    LET n == Len(thread.messages)
        dates == {thread.messages[i].date : i \in 1..n}
        earliest == CHOOSE d \in dates : \A o \in dates : d <= o
        latest == CHOOSE d \in dates : \A o \in dates : d >= o
        spanMin == (latest - earliest) \div MinuteMs
    IN  IF n < 2 THEN 0
        ELSE IF spanMin > 0 THEN roundDiv(n * 100 * 1440, spanMin)
        ELSE 0

\* insight.js, updateVelocity: messages / max(1, days between firstSeen and
\* lastSeen), rounded to one decimal.
updateVelocityJs(thread) ==
    LET n == Len(thread.messages)
        diff == thread.lastMessageAt - thread.firstMessageAt
    IN  IF n < 2 THEN 0
        ELSE IF diff <= DayMs THEN 100 * n
        ELSE 10 * roundDiv(n * 10 * 1440, diff \div MinuteMs)

updateVelocity(impl, thread) ==
    IF impl = "ts" THEN updateVelocityTs(thread) ELSE updateVelocityJs(thread)

countZone(zones, zone) == Cardinality({i \in 1..Len(zones) : zones[i] = zone})

\* insight.ts, updateTemperature.
updateTemperatureTs(thread, t) ==
    LET since == t - thread.lastMessageAt
        recency == IF since < 2 * HourMs THEN 20
                   ELSE IF since < 24 * HourMs THEN 10
                   ELSE IF since > 168 * HourMs THEN -20
                   ELSE 0
        temp == 100 * (min(Len(thread.messages) * 10, 30)
                       + min(Cardinality(thread.participants) * 10, 20)
                       + countZone(thread.zones, "red") * 15
                       + countZone(thread.zones, "yellow") * 5
                       + recency)
                + 5 * thread.velocity
    IN  max(0, min(10000, temp))

\* insight.js, updateTemperature.
updateTemperatureJs(thread, t) ==
    LET recentZones == sliceLast(thread.zones, 3)
        since == t - thread.lastMessageAt
        temp == 100 * (50
                       + min(Cardinality(thread.participants) * 5, 20)
                       + min(Len(thread.messages) * 3, 15)
                       + countZone(recentZones, "red") * 10
                       + countZone(recentZones, "yellow") * 3)
                + min(5 * thread.velocity, 1500)
                - min(since \div 72000, 3000)
    IN  100 * max(0, min(100, (temp + 50) \div 100))

updateTemperature(impl, thread, t) ==
    IF impl = "ts" THEN updateTemperatureTs(thread, t) ELSE updateTemperatureJs(thread, t)

zoneWeight(zone) ==
    CASE zone = "red" -> 3 [] zone = "yellow" -> 2 [] zone = "green" -> 1 [] OTHER -> 0

sumOf(arr) ==
    LET sum[i \in 0..Len(arr)] == IF i = 0 THEN 0 ELSE sum[i - 1] + arr[i]
    IN  sum[Len(arr)]

\* insight.ts, updateTrajectory: the mean weight of the last three zones
\* against the mean weight of all of them.
updateTrajectoryTs(thread) ==
    LET n == Len(thread.zones)
        recent == sumOf([i \in 1..3 |-> zoneWeight(sliceLast(thread.zones, 3)[i])])
        hist == sumOf([i \in 1..n |-> zoneWeight(thread.zones[i])])
    IN  IF Len(thread.messages) < 3 THEN "new"
        ELSE IF 2 * n * recent > 6 * hist + 3 * n THEN "heating"
        ELSE IF 2 * n * recent < 6 * hist - 3 * n THEN "cooling"
        ELSE "steady"

\* insight.js, updateTrajectory: the mean score of the last three messages
\* against the mean score of the (up to) three before them.
updateTrajectoryJs(thread) ==
    LET n == Len(thread.messages)
        recent == SubSeq(thread.messages, n - 2, n)
        older == SubSeq(thread.messages, max(1, n - 5), n - 3)
        recentSum == sumOf([i \in 1..Len(recent) |-> recent[i].score])
        olderSum == sumOf([i \in 1..Len(older) |-> older[i].score])
        delta3 == recentSum * Len(older) - olderSum * 3
    IN  IF n < 3 THEN "stable"
        ELSE IF Len(older) = 0 THEN "stable"
        ELSE IF delta3 > 10 * 3 * Len(older) THEN "rising"
        ELSE IF delta3 < -10 * 3 * Len(older) THEN "falling"
        ELSE "stable"

updateTrajectory(impl, thread) ==
    IF impl = "ts" THEN updateTrajectoryTs(thread) ELSE updateTrajectoryJs(thread)

\* insight.js, generateInsight, lines 203-207: an insight of the type for the
\* thread that is less than 24 hours old.
recentDuplicate(insights, type, threadId, t) ==
    \E i \in 1..Len(insights) :
        /\ insights[i].type = type
        /\ insights[i].threadId = threadId
        /\ t - insights[i].createdAt < DayMs

\* Whether generateInsight returns before storing anything: insight.js
\* looks for a recent duplicate, insight.ts does not.
suppressed(impl, insights, type, threadId, t) ==
    impl = "js" /\ recentDuplicate(insights, type, threadId, t)

\* generateInsight(insight) at time t: the insight is stored (id: the 'iN' of
\* insight.js, 0 in insight.ts; severity: priority in insight.js; createdAt:
\* timestamp in insight.js), saved and announced.
generateInsight(ins, b, busI, impl, threadId, type, severity, t) ==
    LET full == [id |-> IF impl = "js" THEN Len(ins.insights) + 1 ELSE 0,
                 threadId |-> threadId, type |-> type, severity |-> severity,
                 createdAt |-> t]
    IN  IF suppressed(impl, ins.insights, type, threadId, t)
        THEN [insight |-> ins, bus |-> b]
        ELSE [insight |-> [ins EXCEPT !.insights = Append(@, full)],
              bus |-> publish(busI, b, "insight", "insight.generated",
                              IF impl = "ts"
                              THEN [type |-> type, severity |-> severity,
                                    threadId |-> threadId]
                              ELSE [insightId |-> full.id, type |-> type,
                                    priority |-> severity]).bus]

\* The insights checkInsightTriggers asks for, in the order it asks.
triggers(impl, thread) ==
    IF impl = "ts"
    THEN opt(thread.velocity > 300, [type |-> "velocity-spike", severity |-> "warning"])
         \o opt(thread.temperature > 8000, [type |-> "hot-thread", severity |-> "critical"])
         \o opt(Cardinality(thread.participants) >= 5,
                [type |-> "multi-party", severity |-> "info"])
    ELSE opt(thread.temperature > 8000 /\ thread.trajectory = "rising",
             [type |-> "hot-thread", severity |-> "high"])
         \o opt(Cardinality(thread.participants) >= 4,
                [type |-> "convergence", severity |-> "medium"])
         \o opt(thread.temperature < 3000 /\ Len(thread.messages) >= 5
                    /\ thread.trajectory = "falling",
                [type |-> "stalling", severity |-> "low"])

checkInsightTriggers(ins, b, busI, impl, thread, t) ==
    LET due == triggers(impl, thread)
        acc[i \in 0..Len(due)] ==
            IF i = 0 THEN [insight |-> ins, bus |-> b]
            ELSE CHOOSE ret \in
                    {generateInsight(prev.insight, prev.bus, busI, impl, thread.threadId,
                                     due[i].type, due[i].severity, t) :
                        prev \in {acc[i - 1]}} : TRUE
    IN  acc[Len(due)]

\* trackThread(email, classification) at time t.  insight.ts checks the
\* triggers and then publishes thread.updated; insight.js publishes first.
trackThread(ins, b, busI, impl, email, classification, t) ==
    LET i == findThread(ins.threads, email.threadId)
        fresh == [threadId |-> email.threadId, participants |-> {}, messages |-> <<>>,
                  zones |-> <<>>, velocity |-> 0,
                  temperature |-> IF impl = "ts" THEN 0 ELSE 5000,
                  trajectory |-> IF impl = "ts" THEN "new" ELSE "stable",
                  firstMessageAt |-> email.date, lastMessageAt |-> email.date]
        thread == IF i = 0 THEN fresh ELSE ins.threads[i]
        added == [thread EXCEPT
                    !.participants = @ \cup {email.from},
                    !.messages = Append(@, [id |-> email.id, from |-> email.from,
                                            zone |-> classification.zone,
                                            score |-> classification.score,
                                            date |-> email.date]),
                    !.zones = Append(@, classification.zone),
                    !.lastMessageAt = email.date]
        withVelocity == [added EXCEPT !.velocity = updateVelocity(impl, added)]
        withTemperature ==
            [withVelocity EXCEPT !.temperature = updateTemperature(impl, withVelocity, t)]
        updated == [withTemperature EXCEPT !.trajectory = updateTrajectory(impl, withTemperature)]
        stored1 == [ins EXCEPT !.threads = IF i = 0 THEN Append(@, updated)
                                            ELSE [@ EXCEPT ![i] = updated]]
        data == [threadId |-> email.threadId, messageCount |-> Len(updated.messages),
                 velocity |-> updated.velocity, temperature |-> updated.temperature,
                 trajectory |-> updated.trajectory]
    IN  IF impl = "ts"
        THEN CHOOSE ret \in
                {[insight |-> r.insight,
                  bus |-> publish(busI, r.bus, "insight", "thread.updated", data).bus,
                  thread |-> updated] :
                    r \in {checkInsightTriggers(stored1, b, busI, impl, updated, t)}} : TRUE
        ELSE CHOOSE ret \in
                {[insight |-> r.insight, bus |-> r.bus, thread |-> updated] :
                    r \in {checkInsightTriggers(
                               stored1,
                               publish(busI, b, "insight", "thread.updated", data).bus,
                               busI, impl, updated, t)}} : TRUE

InsightIdle ==
    /\ insight = [threads |-> <<>>, insights |-> <<>>]
    /\ insightImpl = "ts"

----------------------------------------------------------------------------
(* Mirror agent *)

\* config.reviewCycle || 10
DefaultReviewCycle == 10

MirrorNew(reviewCycle) ==
    [reviews |-> <<>>, evolutionLog |-> <<>>, cycleCount |-> 0,
     reviewCycle |-> IF reviewCycle = 0 THEN DefaultReviewCycle ELSE reviewCycle]

\* avg(arr), in percent: Math.round(mean * 100) / 100 of confidences given
\* as fractions is the mean of the percentages rounded to a whole percent.
avg(arr) ==
    LET sum[i \in 0..Len(arr)] == IF i = 0 THEN 0 ELSE sum[i - 1] + arr[i]
    IN  IF Len(arr) = 0 THEN 0 ELSE (2 * sum[Len(arr)] + Len(arr)) \div (2 * Len(arr))

\* The feedback entries reviewClassifications raises (lines 41-49); every
\* one of them has type 'question'.
classifyFeedback(classifications) ==
    LET n == Len(classifications)
        low == Cardinality({i \in 1..n : classifications[i].confidence < 50})
        red == Cardinality({i \in 1..n : classifications[i].zone = "red"})
        green == Cardinality({i \in 1..n : classifications[i].zone = "green"})
    IN  opt(10 * low > 3 * (IF n = 0 THEN 1 ELSE n), "question")
        \o opt(n > 0 /\ 2 * red > n, "question")
        \o opt(n > 0 /\ 10 * green > 7 * n, "question")

\* The feedback entries reviewSeeds raises (lines 89-94).
seedFeedback(seedStats) ==
    opt(seedStats.active > 20, "question")
    \o opt(seedStats.active > 0 /\ 10 * seedStats.escalated > 4 * seedStats.active, "question")

\* Math.ceil(reviewCycle / 2)
ceilHalf(n) == (n + 1) \div 2

\* Mutant: evolve runs on every review from the N-th on.
dueForEvolution_fromNth(cycleCount, reviewCycle) == cycleCount >= reviewCycle

\* this.cycleCount % this.reviewCycle === 0
dueForEvolution(cycleCount, reviewCycle) == cycleCount % reviewCycle = 0

\* The types feedback entries have.
FeedbackTypes == {"question"}

\* feedbackPatterns: for every type, the number of feedback entries of that
\* type in the reviews (lines 123-127).
feedbackPatterns(recent) ==
    [type \in FeedbackTypes |->
        LET total[i \in 0..Len(recent)] ==
                IF i = 0 THEN 0
                ELSE total[i - 1] + Cardinality({k \in 1..Len(recent[i].feedback) :
                                                    recent[i].feedback[k] = type})
        IN  total[Len(recent)]]

\* evolve(): the Evolution record made of the last reviewCycle reviews,
\* pushed to evolutionLog and announced on the bus.
evolve(m, b, impl) ==
    LET recent == sliceLast(m.reviews, m.reviewCycle)
        patterns == feedbackPatterns(recent)
        types == {type \in FeedbackTypes :
                     patterns[type] > 0 /\ patterns[type] >= ceilHalf(m.reviewCycle)}
        recurring == IF "question" \in types
                     THEN <<[priority |-> "high", type |-> "question",
                             count |-> patterns["question"]]>>
                     ELSE <<>>
        classifyIdx == {i \in 1..Len(recent) : recent[i].agent = "classify"}
        first == CHOOSE i \in classifyIdx : \A j \in classifyIdx : i <= j
        last == CHOOSE i \in classifyIdx : \A j \in classifyIdx : i >= j
        trend == recent[last].avgConfidence - recent[first].avgConfidence
        trending == IF Cardinality(classifyIdx) < 3 THEN <<>>
                    ELSE opt(trend > 10, [priority |-> "positive", type |-> "", count |-> 0])
                         \o opt(trend < -10, [priority |-> "warning", type |-> "", count |-> 0])
        evolution == [cycle |-> m.cycleCount, feedbackPatterns |-> patterns,
                      recommendations |-> recurring \o trending]
    IN  [mirror |-> [m EXCEPT !.evolutionLog = Append(@, evolution)],
         bus |-> publish(impl, b, "mirror", "evolution.completed",
                         [cycle |-> m.cycleCount,
                          recommendations |-> Len(evolution.recommendations)]).bus,
         evolution |-> evolution]

\* reviewClassifications(classifications).  The database insert is not
\* awaited and its rejection is caught: it changes nothing the agent keeps.
reviewClassifications(m, b, impl, classifications) ==
    LET cycle == m.cycleCount + 1
        review == [agent |-> "classify", cycleNumber |-> cycle,
                   sampleSize |-> Len(classifications),
                   avgConfidence |-> avg([i \in 1..Len(classifications) |->
                                            classifications[i].confidence]),
                   feedback |-> classifyFeedback(classifications),
                   evolution |-> <<>>]
        pushed == [m EXCEPT !.cycleCount = cycle, !.reviews = Append(@, review)]
        done(mm, bb, evolved) ==
            [mirror |-> mm,
             bus |-> publish(impl, bb, "mirror", "review.completed",
                             [agent |-> "classify", cycle |-> cycle,
                              avgConfidence |-> review.avgConfidence,
                              feedbackCount |-> Len(review.feedback),
                              evolved |-> evolved]).bus,
             review |-> mm.reviews[Len(mm.reviews)]]
    IN  IF dueForEvolution(cycle, m.reviewCycle)
        THEN CHOOSE ret \in
                {done([r.mirror EXCEPT !.reviews[Len(pushed.reviews)].evolution = <<r.evolution>>],
                      r.bus, TRUE) :
                    r \in {evolve(pushed, b, impl)}} : TRUE
        ELSE done(pushed, b, FALSE)

\* reviewSeeds(seedStats): a review without cycleNumber and evolution
\* (cycleNumber 0 stands for undefined).
reviewSeeds(m, b, impl, seedStats) ==
    LET review == [agent |-> "seed", cycleNumber |-> 0, sampleSize |-> 0,
                   avgConfidence |-> 0,
                   feedback |-> seedFeedback(seedStats),
                   evolution |-> <<>>]
    IN  [mirror |-> [m EXCEPT !.reviews = Append(@, review)],
         bus |-> publish(impl, b, "mirror", "review.completed",
                         [agent |-> "seed", feedbackCount |-> Len(review.feedback)]).bus,
         review |-> review]

MirrorIdle ==
    /\ mirror = MirrorNew(0)

----------------------------------------------------------------------------
(* Rate limiter *)

\* Math.ceil(a / b) for positive integers.
ceilDiv(a, b) == (a + b - 1) \div b

\* new RateLimiter(maxPerMinute)
RateLimiterNew(maxPerMinute) ==
    [maxPerMinute |-> maxPerMinute,
     minGapMs |-> ceilDiv(60000, maxPerMinute) + 500,
     lastCall |-> 0]

\* wait() up to its await, called when the clock reads t: the time to sleep
\* (0: the call goes straight to the last line).
waitMs(rl, t) ==
    LET elapsed == t - rl.lastCall
    IN  IF rl.lastCall > 0 /\ elapsed < rl.minGapMs THEN rl.minGapMs - elapsed ELSE 0

\* The last line of wait(), run when the clock reads t.
stamp(rl, t) == [rl EXCEPT !.lastCall = t]

\* The callers that may be inside wait() at the same time.
Callers == {"c1", "c2"}

\* No call in flight, none returned.  overlapped records whether a call was
\* ever made while another one was asleep.
NoWaits ==
    [sleeping |-> [c \in Callers |-> FALSE], due |-> [c \in Callers |-> 0],
     returned |-> <<>>, overlapped |-> FALSE]

LimiterIdle ==
    /\ limiter = RateLimiterNew(15)
    /\ waits = NoWaits

----------------------------------------------------------------------------
(* State machine *)

States == {"IDLE", "SYNCING", "PROCESSING", "SUGGESTING", "COMPLETE", "ERROR"}

\* Mutant: the table also lets an empty sync go straight to COMPLETE.
TRANSITIONS_shortcut ==
    [s \in States |->
        CASE s = "IDLE" -> <<"SYNCING">>
          [] s = "SYNCING" -> <<"PROCESSING", "COMPLETE", "ERROR">>
          [] s = "PROCESSING" -> <<"SUGGESTING", "ERROR">>
          [] s = "SUGGESTING" -> <<"COMPLETE", "ERROR">>
          [] s = "COMPLETE" -> <<"IDLE">>
          [] s = "ERROR" -> <<"IDLE">>]

TRANSITIONS ==
    [s \in States |->
        CASE s = "IDLE" -> <<"SYNCING">>
          [] s = "SYNCING" -> <<"PROCESSING", "ERROR">>
          [] s = "PROCESSING" -> <<"SUGGESTING", "ERROR">>
          [] s = "SUGGESTING" -> <<"COMPLETE", "ERROR">>
          [] s = "COMPLETE" -> <<"IDLE">>
          [] s = "ERROR" -> <<"IDLE">>]

NoTime == -1
NoError == "<null>"
NoMeta == [error |-> ""]

\* Mutant: the target state is assigned before the table is consulted.
transition_assignFirst(newState, meta) ==
    LET allowed == TRANSITIONS[state]
    IN  /\ now' = now + 1
        /\ state' = newState
        /\ IF ~includes(allowed, newState)
           THEN /\ bus' = publish(busImpl, bus, "state", "state.invalid_transition",
                                  [from |-> state, to |-> newState]).bus
                /\ lastCall' = [op |-> "transition", arg |-> newState, ret |-> FALSE]
                /\ UNCHANGED <<history, errorCount, lastError, startTime>>
           ELSE /\ history' = Append(history, [from |-> state, to |-> newState,
                                               timestamp |-> now, meta |-> meta])
                /\ startTime' = IF newState = "SYNCING" THEN now ELSE startTime
                /\ errorCount' = IF newState = "ERROR" THEN errorCount + 1 ELSE errorCount
                /\ lastError' = IF newState = "ERROR"
                                THEN (IF meta.error # "" THEN meta.error ELSE "Unknown error")
                                ELSE lastError
                /\ bus' = publish(busImpl, bus, "state", "state.transition",
                                  [from |-> state, to |-> newState]).bus
                /\ lastCall' = [op |-> "transition", arg |-> newState, ret |-> TRUE]

\* transition(newState, meta); every call is made at a later clock reading.
transition(newState, meta) ==
    LET allowed == TRANSITIONS[state]
    IN  /\ now' = now + 1
        /\ IF ~includes(allowed, newState)
           THEN /\ bus' = publish(busImpl, bus, "state", "state.invalid_transition",
                                  [from |-> state, to |-> newState]).bus
                /\ lastCall' = [op |-> "transition", arg |-> newState, ret |-> FALSE]
                /\ UNCHANGED smVars
           ELSE /\ state' = newState
                /\ history' = Append(history, [from |-> state, to |-> newState,
                                               timestamp |-> now, meta |-> meta])
                /\ startTime' = IF newState = "SYNCING" THEN now ELSE startTime
                /\ errorCount' = IF newState = "ERROR" THEN errorCount + 1 ELSE errorCount
                /\ lastError' = IF newState = "ERROR"
                                THEN (IF meta.error # "" THEN meta.error ELSE "Unknown error")
                                ELSE lastError
                /\ bus' = publish(busImpl, bus, "state", "state.transition",
                                  [from |-> state, to |-> newState]).bus
                /\ lastCall' = [op |-> "transition", arg |-> newState, ret |-> TRUE]

reset ==
    /\ state' = "IDLE"
    /\ startTime' = NoTime
    /\ bus' = publish(busImpl, bus, "state", "state.reset", [from |-> state, to |-> "IDLE"]).bus
    /\ lastCall' = [op |-> "reset", arg |-> state, ret |-> TRUE]
    /\ now' = now + 1
    /\ UNCHANGED <<history, errorCount, lastError>>

SMInit ==
    /\ state = "IDLE"
    /\ history = <<>>
    /\ errorCount = 0
    /\ lastError = NoError
    /\ startTime = NoTime

BusInit ==
    /\ bus = BusNew
    /\ delivered = <<>>

SyncIdle ==
    /\ pc = "none"
    /\ runs = 0
    /\ syncFrom = "IDLE"

Metas == {NoMeta, [error |-> "boom"]}

\* Any caller of the shared state machine: transition with any target, reset.
Transition ==
    /\ Len(bus.events) < MaxEvents
    /\ \E newState \in States :
         \E meta \in (IF newState = "ERROR" THEN Metas ELSE {NoMeta}) :
            transition(newState, meta)
    /\ UNCHANGED <<busImpl, delivered, pc, runs, syncFrom, classifyVars, seedVars, insightVars, mirrorVars, limiterVars>>

Reset ==
    /\ Len(bus.events) < MaxEvents
    /\ reset
    /\ UNCHANGED <<busImpl, delivered, pc, runs, syncFrom, classifyVars, seedVars, insightVars, mirrorVars, limiterVars>>

InitSM ==
    /\ SMInit
    /\ BusInit
    /\ busImpl \in {"ts", "js"}
    /\ SyncIdle
    /\ ClassifierIdle
    /\ SeedIdle
    /\ InsightIdle
    /\ MirrorIdle
    /\ LimiterIdle
    /\ lastCall = [op |-> "none"]
    /\ now = 0

NextSM == Transition \/ Reset

SpecSM == InitSM /\ [][NextSM]_vars

----------------------------------------------------------------------------
(* Claims about the state machine *)

\* The fixed table as the specification states it.
TableEdges ==
    {<<"IDLE", "SYNCING">>, <<"SYNCING", "PROCESSING">>, <<"SYNCING", "ERROR">>,
     <<"PROCESSING", "SUGGESTING">>, <<"PROCESSING", "ERROR">>,
     <<"SUGGESTING", "COMPLETE">>, <<"SUGGESTING", "ERROR">>,
     <<"COMPLETE", "IDLE">>, <<"ERROR", "IDLE">>}

\* C1: a transition call whose target is not allowed from the current state
\* returns false, publishes exactly one state.invalid_transition event naming
\* the current state and the target, and leaves state, history, errorCount,
\* lastError and startTime unchanged.
C1_IllegalTransitionRejected ==
    [][(lastCall'.op = "transition" /\ <<state, lastCall'.arg>> \notin TableEdges)
        => /\ lastCall'.ret = FALSE
           /\ state' = state
           /\ history' = history
           /\ errorCount' = errorCount
           /\ lastError' = lastError
           /\ startTime' = startTime
           /\ Len(bus'.events) = Len(bus.events) + 1
           /\ lastEvent(bus').type = "state.invalid_transition"
           /\ lastEvent(bus').data = [from |-> state, to |-> lastCall'.arg]]_vars

\* C1 witness: a transition was rejected while a sync cycle was under way.
C1_Witness ==
    /\ lastCall.op = "transition"
    /\ lastCall.ret = FALSE
    /\ state = "PROCESSING"
    /\ lastCall.arg = "COMPLETE"
    /\ lastEvent(bus).type = "state.invalid_transition"

\* C2 as stated: over transition and reset calls, every change of state
\* follows an edge of the fixed table.
C2_EveryChangeFollowsTable ==
    [][state' # state => <<state, state'>> \in TableEdges]_vars

\* C2 amended: every change of state made by transition follows an edge of
\* the fixed table; the only other change is reset, which forces IDLE from
\* whatever state the machine is in.
C2_ChangeFollowsTableOrReset ==
    [][state' # state =>
        \/ (lastCall'.op = "transition" /\ <<state, state'>> \in TableEdges)
        \/ (lastCall'.op = "reset" /\ state' = "IDLE")]_vars

\* C2 witness: a reset forced IDLE from a state that has no edge to IDLE,
\* after transitions had moved the machine along the table.
C2_Witness ==
    /\ lastCall.op = "reset"
    /\ lastCall.arg = "PROCESSING"
    /\ state = "IDLE"
    /\ Len(history) = 2

----------------------------------------------------------------------------
(* Orchestrator: runSync, one action per stretch of code between awaits *)

ErrorMessages == {"", "boom"}

\* The catch block of runSync.
syncFailed(message) ==
    /\ transition("ERROR", [error |-> message])
    /\ pc' = "none"

\* runSync is called: transition(SYNCING), then ingest.run is awaited.
RunSyncCall ==
    /\ pc = "none"
    /\ runs < MaxRuns
    /\ transition("SYNCING", NoMeta)
    /\ pc' = "ingest"
    /\ runs' = runs + 1
    /\ syncFrom' = state
    /\ UNCHANGED <<busImpl, delivered, classifyVars, seedVars, insightVars, mirrorVars, limiterVars>>

\* ingest.run settles: it throws, returns no email, or returns some.
IngestDone ==
    /\ pc = "ingest"
    /\ \/ \E m \in ErrorMessages : syncFailed(m)
       \/ transition("COMPLETE", NoMeta) /\ pc' = "none"
       \/ transition("PROCESSING", NoMeta) /\ pc' = "classify"
    /\ UNCHANGED <<busImpl, delivered, runs, syncFrom, classifyVars, seedVars, insightVars, mirrorVars, limiterVars>>

\* classify.batchClassify settles.
ClassifyDone ==
    /\ pc = "classify"
    /\ \/ \E m \in ErrorMessages : syncFailed(m)
       \/ transition("SUGGESTING", NoMeta) /\ pc' = "suggest"
    /\ UNCHANGED <<busImpl, delivered, runs, syncFrom, classifyVars, seedVars, insightVars, mirrorVars, limiterVars>>

\* The loop over the classified emails (seed.evaluate, insight.trackThread,
\* suggest.suggest) ends or throws.
SuggestDone ==
    /\ pc = "suggest"
    /\ \/ \E m \in ErrorMessages : syncFailed(m)
       \/ /\ pc' = "mirror"
          /\ UNCHANGED <<state, history, errorCount, lastError, startTime, bus, lastCall, now>>
    /\ UNCHANGED <<busImpl, delivered, runs, syncFrom, classifyVars, seedVars, insightVars, mirrorVars, limiterVars>>

\* classify.getLog and mirror.reviewClassifications settle.
MirrorDone ==
    /\ pc = "mirror"
    /\ \/ \E m \in ErrorMessages : syncFailed(m)
       \/ /\ pc' = "escalate"
          /\ UNCHANGED <<state, history, errorCount, lastError, startTime, bus, lastCall, now>>
    /\ UNCHANGED <<busImpl, delivered, runs, syncFrom, classifyVars, seedVars, insightVars, mirrorVars, limiterVars>>

\* seed.checkEscalation settles; on success runSync ends with transition(COMPLETE).
EscalateDone ==
    /\ pc = "escalate"
    /\ \/ \E m \in ErrorMessages : syncFailed(m)
       \/ transition("COMPLETE", NoMeta) /\ pc' = "none"
    /\ UNCHANGED <<busImpl, delivered, runs, syncFrom, classifyVars, seedVars, insightVars, mirrorVars, limiterVars>>

InitSync == InitSM

NextSync ==
    \/ RunSyncCall
    \/ IngestDone
    \/ ClassifyDone
    \/ SuggestDone
    \/ MirrorDone
    \/ EscalateDone

SpecSync == InitSync /\ [][NextSync]_vars

\* C3: a runSync that was started with the state machine in IDLE has, when it
\* returns, left the state machine in COMPLETE or in ERROR.
C3_SyncEndsCompleteOrError ==
    (pc = "none" /\ runs > 0 /\ syncFrom = "IDLE") => state \in {"COMPLETE", "ERROR"}

----------------------------------------------------------------------------
(* The bus on its own: subscribe, unsubscribe, publish *)

subscriptionCount(b) == Len(handlersOf(b, "a")) + Len(handlersOf(b, "*"))

Subscribe ==
    /\ subscriptionCount(bus) < MaxSubs
    /\ \E type \in SubTypes, h \in Handlers :
          /\ bus' = subscribe(bus, type, h)
          /\ lastCall' = [op |-> "subscribe", arg |-> type, ret |-> TRUE]
    /\ UNCHANGED <<smVars, busImpl, delivered, now, syncVars, classifyVars, seedVars, insightVars, mirrorVars, limiterVars>>

Unsubscribe ==
    /\ \E type \in SubTypes, h \in Handlers :
          /\ includes(handlersOf(bus, type), h)
          /\ bus' = unsubscribe(busImpl, bus, type, h)
          /\ lastCall' = [op |-> "unsubscribe", arg |-> type, ret |-> TRUE]
    /\ UNCHANGED <<smVars, busImpl, delivered, now, syncVars, classifyVars, seedVars, insightVars, mirrorVars, limiterVars>>

Publish ==
    /\ bus.counter < MaxPublish
    /\ \E type \in EventTypes :
          LET r == publish(busImpl, bus, "agent", type, [from |-> "", to |-> ""])
          IN  /\ bus' = r.bus
              /\ delivered' = r.invoked
              /\ lastCall' = [op |-> "publish", arg |-> type, ret |-> ~r.threw]
    /\ UNCHANGED <<smVars, busImpl, now, syncVars, classifyVars, seedVars, insightVars, mirrorVars, limiterVars>>

InitBus == InitSM

NextBus == Subscribe \/ Unsubscribe \/ Publish

SpecBus == InitBus /\ [][NextBus]_vars

count(arr, x) == Cardinality({i \in 1..Len(arr) : arr[i] = x})

\* C4: when an event is published, every handler subscribed for it, under its
\* type or under '*', is called once per subscription, whether or not a
\* handler before it threw, and publish returns normally to the publisher.
C4_ThrowingSubscriberIsolated ==
    [][lastCall'.op = "publish" /\ bus'.counter = bus.counter + 1
        => /\ lastCall'.ret = TRUE
           /\ \A h \in Handlers :
                count(delivered', h) =
                    count(handlersOf(bus, lastCall'.arg), h) + count(handlersOf(bus, "*"), h)]_vars

----------------------------------------------------------------------------
(* The classifier applied to one email *)

BOOL01(b) == IF b THEN 1 ELSE 0

negatives(e) ==
    BOOL01(e.newsletter) + BOOL01(e.seasonal) + BOOL01(e.autoNotif) + BOOL01(e.marketing)

positives(e) ==
    BOOL01(e.vip = "domain") + e.high + e.medium + e.low + BOOL01(e.legacyVip)
    + BOOL01(e.important) + BOOL01(e.starred) + BOOL01(e.reply)

EmailShapes ==
    [id : {"e1"}, vip : {"none", "domain"} \cup Zones,
     newsletter : BOOLEAN, seasonal : BOOLEAN, autoNotif : BOOLEAN, marketing : BOOLEAN,
     action : BOOLEAN, high : 0..MaxHits, medium : 0..MaxHits, low : 0..MaxHits,
     legacyVip : BOOLEAN, important : BOOLEAN, starred : BOOLEAN, reply : BOOLEAN,
     sender : {"s1"}, key : {"k1"}, malformed : {FALSE}, offer : {FALSE}]

\* The emails tried: every mix of noise signals and the action signal with up
\* to MaxPositives other positive signals; for an email that hits a forced-zone
\* rule, at most one further pattern.
ClassifyEmails ==
    {e \in EmailShapes :
        /\ positives(e) <= MaxPositives
        /\ e.vip \in Zones => negatives(e) + positives(e) <= 1}

BlankEmail ==
    [id |-> "e1", vip |-> "none",
     newsletter |-> FALSE, seasonal |-> FALSE, autoNotif |-> FALSE, marketing |-> FALSE,
     action |-> FALSE, high |-> 0, medium |-> 0, low |-> 0,
     legacyVip |-> FALSE, important |-> FALSE, starred |-> FALSE, reply |-> FALSE,
     sender |-> "s1", key |-> "k1", malformed |-> FALSE, offer |-> FALSE]

MalformedEmail == [BlankEmail EXCEPT !.malformed = TRUE]

\* An agent that has already seen the sender and the subject some number of
\* times is handed one email.
InitClassify ==
    /\ SMInit
    /\ BusInit
    /\ busImpl = "ts"
    /\ SyncIdle
    /\ lastCall = [op |-> "none"]
    /\ now = 0
    /\ inbox \in {<<e>> : e \in ClassifyEmails \cup {MalformedEmail}}
    /\ \E llmEnabled \in BOOLEAN, seen \in {0, FrequentAfter + 1}, dup \in 0..MaxDup :
          classifier = [ClassifierNew(llmEnabled) EXCEPT !.senderHistory["s1"] = seen,
                                                         !.subjectHistory["k1"] = dup]
    /\ produced = <<>>
    /\ batch = EmptyBatch
    /\ trace = NoTrace
    /\ SeedIdle
    /\ InsightIdle
    /\ MirrorIdle
    /\ LimiterIdle

ClassifyOne ==
    /\ lastCall.op = "none"
    /\ \E llm \in llmAnswers(classifier, inbox[1]) :
          \E r \in {classify(classifier, bus, busImpl, inbox[1], llm)} :
              /\ classifier' = r.classifier
              /\ bus' = r.bus
              /\ produced' = r.result
              /\ trace' = [threw |-> r.threw, llmCalled |-> r.llmCalled,
                           signals |-> r.signals, keywordScore |-> r.keywordScore,
                           keywordConfidence |-> r.keywordConfidence,
                           llm |-> llm]
              /\ lastCall' = [op |-> "classify", arg |-> inbox[1].id, ret |-> ~r.threw]
    /\ UNCHANGED <<smVars, busImpl, delivered, now, syncVars, inbox, batch, seedVars, insightVars, mirrorVars, limiterVars>>

BatchOne ==
    /\ lastCall.op = "none"
    /\ \E llm \in llmAnswers(classifier, inbox[1]) :
          \E r \in {batchClassify(classifier, bus, busImpl, inbox, <<llm>>)} :
              /\ classifier' = r.classifier
              /\ bus' = r.bus
              /\ batch' = r.results
              /\ lastCall' = [op |-> "batchClassify", arg |-> inbox[1].id, ret |-> ~r.threw]
    /\ UNCHANGED <<smVars, busImpl, delivered, now, syncVars, inbox, produced, trace, seedVars, insightVars, mirrorVars, limiterVars>>

NextClassify == ClassifyOne \/ BatchOne

SpecClassify == InitClassify /\ [][NextClassify]_vars

\* The score-to-zone mapping as the specification states it.
SpecZone(score) ==
    IF score >= 75 THEN "red" ELSE IF score >= 45 THEN "yellow" ELSE "green"

hasType(signals, types) == \E i \in 1..Len(signals) : signals[i].type \in types

bucketEntries(results) ==
    {results.red[i].classification : i \in 1..Len(results.red)}
    \cup {results.yellow[i].classification : i \in 1..Len(results.yellow)}
    \cup {results.green[i].classification : i \in 1..Len(results.green)}

\* C5: every Classification the agent hands out, from classify on the keyword
\* path, the LLM path and the LLM-failure path and from batchClassify
\* including its per-email default, has zone = scoreToZone(score) under the
\* mapping >= 75 red, >= 45 yellow, else green.
C5_ZoneAgreesWithScore ==
    /\ \A i \in 1..Len(produced) : produced[i].zone = SpecZone(produced[i].score)
    /\ \A cl \in bucketEntries(batch) : cl.zone = SpecZone(cl.score)
    /\ \A i \in 1..Len(classifier.classifications) :
          classifier.classifications[i].zone = SpecZone(classifier.classifications[i].score)

\* C5 witness: the LLM chose the zone of a low-confidence email.
C5_Witness ==
    /\ Len(produced) = 1
    /\ produced[1].method = "llm"
    /\ produced[1].zone = "yellow"
    /\ trace.keywordScore < 45

\* C6: when the detected signals carry no forced zone and contain a negative
\* signal together with action-required, the keyword score is at least 75
\* and the Classification classify returns is red.
C6_ActionOverridesNoise ==
    (lastCall.op = "classify"
        /\ hasType(trace.signals, NegativeTypes)
        /\ hasType(trace.signals, {"action-required"})
        /\ ~hasType(trace.signals, {"vip-precision"}))
    => /\ trace.keywordScore >= 75
       /\ Len(produced) = 1
       /\ produced[1].zone = "red"
       /\ produced[1].score >= 75

\* C6 witness: newsletter, seasonal greeting, a third-time duplicate and an
\* action keyword in one email: the weights sum far below 75, the result is red.
C6_Witness ==
    /\ lastCall.op = "classify"
    /\ hasType(trace.signals, {"newsletter"})
    /\ hasType(trace.signals, {"seasonal-greeting"})
    /\ hasType(trace.signals, {"duplicate"})
    /\ hasType(trace.signals, {"action-required"})
    /\ sumWeights(trace.signals) < 0
    /\ produced[1].zone = "red"

llmFailed(llm) == llm.kind \in {"throw", "badjson"} \/ (llm.kind = "json" /\ llm.zone \notin Zones)

\* C7: when the LLM is consulted and its call throws, or its answer is not
\* JSON or names a zone outside red, yellow, green, classify does not throw
\* and returns the keyword-derived zone and score with method 'fallback'.
C7_LlmFailureFallsBack ==
    (lastCall.op = "classify" /\ trace.llmCalled /\ llmFailed(trace.llm))
    => /\ ~trace.threw
       /\ Len(produced) = 1
       /\ produced[1].score = trace.keywordScore
       /\ produced[1].zone = SpecZone(trace.keywordScore)
       /\ produced[1].method = "fallback"

\* C9: a signal list of two or more signals (keyword confidence >= 0.8) is
\* answered from the keywords alone, method keyword, zone from the keyword
\* score, no LLM call; the LLM is consulted only for fewer than two signals.
C9_HighConfidenceIsKeyword ==
    lastCall.op = "classify" /\ ~trace.threw
    => /\ Len(trace.signals) >= 2
            => /\ produced[1].method = "keyword"
               /\ produced[1].score = trace.keywordScore
               /\ produced[1].zone = SpecZone(trace.keywordScore)
               /\ ~trace.llmCalled
               /\ classifier.stats.llm = 0
       /\ trace.llmCalled => Len(trace.signals) < 2 /\ trace.keywordConfidence < 80

\* C9 witness: exactly two signals, an enabled LLM, and the keyword result.
C9_Witness ==
    /\ lastCall.op = "classify"
    /\ classifier.llmEnabled
    /\ Len(trace.signals) = 2
    /\ produced[1].method = "keyword"
    /\ ~trace.llmCalled

----------------------------------------------------------------------------
(* batchClassify over lists of emails *)

\* The emails a batch is made of: one without any signal, one with an action
\* keyword and a high-urgency keyword, one that is pure noise, one that hits a
\* forced-green VIP rule, and one that makes classify throw.
BatchEmails ==
    {[BlankEmail EXCEPT !.id = "e1"],
     [BlankEmail EXCEPT !.id = "e2", !.action = TRUE, !.high = 1, !.sender = "s2", !.key = "k2"],
     [BlankEmail EXCEPT !.id = "e3", !.newsletter = TRUE, !.seasonal = TRUE, !.marketing = TRUE],
     [BlankEmail EXCEPT !.id = "e4", !.vip = "green", !.sender = "s2"],
     [BlankEmail EXCEPT !.id = "e5", !.malformed = TRUE]}

BatchInputs == UNION {[1..n -> BatchEmails] : n \in 0..MaxBatch}

BatchAnswers ==
    {[kind |-> "throw", zone |-> "", confidence |-> 0, signals |-> <<>>],
     [kind |-> "json", zone |-> "red", confidence |-> 0, signals |-> <<>>],
     [kind |-> "json", zone |-> "green", confidence |-> 40, signals |-> <<"llm-hint">>]}

batchesDone(b) == Cardinality({i \in 1..Len(b.events) : b.events[i].type = "batch.classified"})

InitBatch ==
    /\ SMInit
    /\ BusInit
    /\ busImpl = "ts"
    /\ SyncIdle
    /\ lastCall = [op |-> "none"]
    /\ now = 0
    /\ inbox = <<>>
    /\ classifier \in {ClassifierNew(llmEnabled) : llmEnabled \in BOOLEAN}
    /\ produced = <<>>
    /\ batch = EmptyBatch
    /\ trace = NoTrace
    /\ SeedIdle
    /\ InsightIdle
    /\ MirrorIdle
    /\ LimiterIdle

BatchClassify ==
    /\ batchesDone(bus) < MaxBatches
    /\ \E emails \in BatchInputs :
         \E llms \in [1..Len(emails) -> BatchAnswers] :
            \E r \in {batchClassify(classifier, bus, busImpl, emails, llms)} :
                /\ inbox' = emails
                /\ classifier' = r.classifier
                /\ bus' = r.bus
                /\ batch' = r.results
                /\ lastCall' = [op |-> "batchClassify", arg |-> "", ret |-> ~r.threw]
    /\ UNCHANGED <<smVars, busImpl, delivered, now, syncVars, produced, trace, seedVars, insightVars, mirrorVars, limiterVars>>

NextBatch == BatchClassify

SpecBatch == InitBatch /\ [][NextBatch]_vars

allEntries(results) == results.red \o results.yellow \o results.green

\* The fixed default of a failed email as the specification states it.
SpecDefault(cl) == cl.zone = "yellow" /\ cl.confidence = 30 /\ cl.method = "fallback"

\* C8: batchClassify returns normally with exactly one entry per input email,
\* each entry in the bucket its classification's zone names; an email whose
\* classify call fails gets zone yellow, confidence 0.3, method fallback, and
\* every other email of the list is classified and logged all the same.
C8_BatchNeverThrows ==
    lastCall.op = "batchClassify"
    => /\ lastCall.ret = TRUE
       /\ Len(allEntries(batch)) = Len(inbox)
       /\ \A e \in BatchEmails :
             Cardinality({i \in 1..Len(allEntries(batch)) : allEntries(batch)[i].email = e})
                = Cardinality({i \in 1..Len(inbox) : inbox[i] = e})
       /\ \A z \in Zones : \A i \in 1..Len(batch[z]) : batch[z][i].classification.zone = z
       /\ \A i \in 1..Len(allEntries(batch)) :
             LET entry == allEntries(batch)[i]
             IN  /\ entry.classification.emailId = entry.email.id
                 /\ IF entry.email.malformed
                    THEN SpecDefault(entry.classification)
                    ELSE includes(classifier.classifications, entry.classification)

\* C8 witness: the first email of a batch failed and the second one was still
\* classified, as red.
C8_Witness ==
    /\ lastCall.op = "batchClassify"
    /\ Len(inbox) = 2
    /\ inbox[1].malformed
    /\ ~inbox[2].malformed
    /\ Len(batch.yellow) = 1
    /\ Len(batch.red) = 1

----------------------------------------------------------------------------
(* The seed agent and the clock *)

Outcomes == {"won", "lost"}

FiveMinutesMs == 300000

\* How far the clock moves between two calls: one hour and five minutes.
ClockSteps == {HourMs + FiveMinutesMs}

\* The seeds planted: a green one that lives two hours, a yellow one and a
\* red one that live a day (or what the configuration makes of their type).
PlantChoices ==
    {[type |-> "decision-needed", zone |-> "green"],
     [type |-> "opportunity", zone |-> "yellow"],
     [type |-> "opportunity", zone |-> "red"]}

\* The sets of sink operations that may fail during one call.
Failures == SUBSET (1..MaxSinkOps)

seedAgent == [seeds |-> seeds, seedCounter |-> seedCounter, rows |-> dbSeeds]

\* The seeds as the agent keeps them: the rows of the table when there is a
\* database, this.seeds otherwise.
stored == IF dbAvailable THEN dbSeeds ELSE seeds

InitSeed ==
    /\ SMInit
    /\ BusInit
    /\ busImpl = "ts"
    /\ SyncIdle
    /\ ClassifierIdle
    /\ seeds = <<>>
    /\ seedCounter = 0
    /\ config \in Configs
    /\ dbAvailable \in BOOLEAN
    /\ dbSeeds = <<>>
    /\ InsightIdle
    /\ MirrorIdle
    /\ LimiterIdle
    /\ lastCall = [op |-> "none"]
    /\ now = 0

\* plant is called for some email with a seed type and a classification; the
\* clock may move on by up to MaxTick milliseconds while plant runs.
PlantWith(choices, failures) ==
    /\ Len(seeds) < MaxSeeds
    /\ Len(bus.events) < MaxSeedEvents
    /\ \E choice \in choices, elapsed \in 0..MaxTick, fails \in failures :
          \E r \in {plant(seedAgent, dbAvailable, config, bus, busImpl,
                          BlankEmail, choice.type,
                          [zone |-> choice.zone, score |-> zoneToScore(choice.zone)],
                          now, elapsed, fails)} :
              /\ seeds' = r.agent.seeds
              /\ seedCounter' = r.agent.seedCounter
              /\ dbSeeds' = r.agent.rows
              /\ bus' = r.bus
              /\ now' = now + elapsed
              /\ lastCall' = [op |-> "plant", arg |-> choice.type, ret |-> ~r.threw,
                              id |-> r.seed.id, ids |-> <<>>, fails |-> fails]
    /\ UNCHANGED <<smVars, busImpl, delivered, syncVars, classifyVars, config, dbAvailable,
                   insightVars, mirrorVars, limiterVars>>

Plant == PlantWith(PlantChoices, {NoFailure})

\* Time passes between calls.
Advance ==
    /\ now < MaxAdvances * HourMs
    /\ \E step \in ClockSteps : now' = now + step
    /\ lastCall' = [op |-> "advance", arg |-> "", ret |-> TRUE]
    /\ UNCHANGED <<smVars, busVars, syncVars, classifyVars, seedVars, insightVars, mirrorVars, limiterVars>>

seedIds(arr) == [i \in 1..Len(arr) |-> arr[i].id]

CheckEscalationWith(failures) ==
    /\ Len(bus.events) < MaxSeedEvents
    /\ \E fails \in failures :
          \E r \in {checkEscalation(seedAgent, dbAvailable, bus, busImpl, now, fails)} :
              /\ seeds' = r.agent.seeds
              /\ dbSeeds' = r.agent.rows
              /\ bus' = r.bus
              /\ lastCall' = [op |-> "checkEscalation", arg |-> "", ret |-> ~r.threw,
                              id |-> 0, ids |-> seedIds(r.escalated), fails |-> fails]
    /\ UNCHANGED <<smVars, busImpl, delivered, now, syncVars, classifyVars, seedCounter, config,
                   dbAvailable, insightVars, mirrorVars, limiterVars>>

CheckEscalation == CheckEscalationWith({NoFailure})

HarvestWith(outcomes, failures) ==
    /\ Len(bus.events) < MaxSeedEvents
    /\ \E seedId \in 1..MaxSeeds, outcome \in outcomes, fails \in failures :
          \E r \in {harvest(seedAgent, dbAvailable, bus, busImpl, seedId, outcome, now, fails)} :
              /\ seeds' = r.agent.seeds
              /\ dbSeeds' = r.agent.rows
              /\ bus' = r.bus
              /\ lastCall' = [op |-> "harvest", arg |-> outcome, ret |-> ~r.threw,
                              id |-> seedId, ids |-> seedIds(r.ret), fails |-> fails]
    /\ UNCHANGED <<smVars, busImpl, delivered, now, syncVars, classifyVars, seedCounter, config,
                   dbAvailable, insightVars, mirrorVars, limiterVars>>

Harvest == HarvestWith(Outcomes, {NoFailure})

GetActiveWith(failures) ==
    /\ \E fails \in failures :
          lastCall' = [op |-> "getActive", arg |-> "", ret |-> TRUE, id |-> 0,
                       ids |-> seedIds(getActive(seedAgent, dbAvailable, fails)),
                       fails |-> fails]
    /\ UNCHANGED <<smVars, busVars, now, syncVars, classifyVars, seedVars, insightVars, mirrorVars, limiterVars>>

GetActive == GetActiveWith({NoFailure})

NextSeed == Plant \/ Advance \/ CheckEscalation \/ Harvest \/ GetActive

\* The sink takes every write and answers every read.
SpecSeed == InitSeed /\ [][NextSeed]_vars

PlantFailing == PlantWith({[type |-> "decision-needed", zone |-> "green"]}, Failures)

CheckEscalationFailing == CheckEscalationWith(Failures)

HarvestFailing == HarvestWith({"won"}, Failures)

NextSink == PlantFailing \/ Advance \/ CheckEscalationFailing \/ HarvestFailing

\* Any write to the sink and any read from it may throw.
SpecSink == InitSeed /\ [][NextSink]_vars

\* The duration a shelf-life string stands for.
SpecShelfLife(shelfLife) ==
    CASE shelfLife = "2h" -> 2 * 3600000
      [] shelfLife = "1d" -> 86400000
      [] OTHER -> 7 * 86400000

\* C10: every planted seed has expiresAt = plantedAt + shelfLife(type) and
\* expiresAt > plantedAt, whatever the clock read while plant ran.
C10_ExpiryIsPlantedPlusShelfLife ==
    \A i \in 1..Len(seeds) :
        /\ seeds[i].expiresAt = seeds[i].plantedAt + SpecShelfLife(seeds[i].shelfLife)
        /\ seeds[i].expiresAt > seeds[i].plantedAt

-----------------------------------------------------------------------------
\* Seed lifecycle: harvest, escalation, the active list.

\* How many events of one type the bus holds about one seed.
eventsAbout(b, type, seedId) ==
    Cardinality({k \in 1..Len(b.events) :
                    b.events[k].type = type /\ b.events[k].data.seedId = seedId})

\* C11: once a seed is harvested, no later harvest or checkEscalation changes
\* it (status, harvestedAt, outcome, zone, escalated), and no further
\* seed.harvested or seed.escalated event is published for it.
C11_HarvestedIsTerminal ==
    [][\A i \in 1..Len(stored) :
          stored[i].status = "harvested"
          => /\ stored'[i] = stored[i]
             /\ eventsAbout(bus', "seed.harvested", stored[i].id)
                  = eventsAbout(bus, "seed.harvested", stored[i].id)
             /\ eventsAbout(bus', "seed.escalated", stored[i].id)
                  = eventsAbout(bus, "seed.escalated", stored[i].id)]_vars

\* A seed harvested as "won" at one time carries, after a second harvest,
\* the outcome "lost" and a later harvestedAt, and the bus holds two
\* seed.harvested events about it.
C11_HarvestedTwice ==
    \E i \in 1..Len(stored) :
        /\ stored[i].status = "harvested"
        /\ stored[i].outcome = "lost"
        /\ stored[i].harvestedAt > 0
        /\ eventsAbout(bus, "seed.harvested", stored[i].id) = 2
        /\ \E k \in 1..Len(bus.events) :
              /\ bus.events[k].type = "seed.harvested"
              /\ bus.events[k].data.seedId = stored[i].id
              /\ bus.events[k].data.duration < stored[i].harvestedAt - stored[i].plantedAt

\* C12: checkEscalation escalates exactly the planted, not yet escalated
\* seeds that are past half of their shelf life
\* (expiresAt - now < (expiresAt - plantedAt) / 2): each of them gets
\* escalated = true and zone = red and is returned; every other seed is left
\* as it was and is not returned.
C12_EscalatesExactlyPastHalfLife ==
    [][lastCall'.op = "checkEscalation"
        => \A i \in 1..Len(stored) :
              IF /\ stored[i].status = "planted"
                 /\ ~stored[i].escalated
                 /\ 2 * (stored[i].expiresAt - now) < stored[i].expiresAt - stored[i].plantedAt
              THEN /\ stored'[i] = [stored[i] EXCEPT !.escalated = TRUE, !.zone = "red"]
                   /\ \E k \in 1..Len(lastCall'.ids) : lastCall'.ids[k] = stored[i].id
              ELSE /\ stored'[i] = stored[i]
                   /\ \A k \in 1..Len(lastCall'.ids) : lastCall'.ids[k] # stored[i].id]_vars

\* A green seed with a two-hour shelf life has just been escalated by a check
\* made one hour and five minutes (give or take the tick) after it was planted.
C12_Witness ==
    /\ lastCall.op = "checkEscalation"
    /\ \E i \in 1..Len(stored) :
          /\ stored[i].shelfLife = "2h"
          /\ stored[i].score = zoneToScore("green")
          /\ stored[i].escalated
          /\ stored[i].zone = "red"
          /\ now - stored[i].plantedAt >= HourMs
          /\ now - stored[i].plantedAt <= HourMs + FiveMinutesMs
          /\ lastCall.ids = <<stored[i].id>>

\* C13: escalation is idempotent and one-way.  A checkEscalation call made
\* right after another changes no seed, returns no seed and publishes
\* nothing; no step takes escalated from true back to false; and the bus
\* never holds more than one seed.escalated event about the same seed.
C13_EscalationIdempotentOneWay ==
    /\ [][/\ \A i \in 1..Len(stored) : stored[i].escalated => stored'[i].escalated
          /\ (lastCall.op = "checkEscalation" /\ lastCall'.op = "checkEscalation")
             => /\ stored' = stored
                /\ seeds' = seeds
                /\ bus' = bus
                /\ lastCall'.ids = <<>>]_vars
    /\ [](\A i \in 1..Len(stored) : eventsAbout(bus, "seed.escalated", stored[i].id) <= 1)

\* A check has just returned nothing although a planted seed is past its
\* half-life: the seed was escalated by an earlier check, whose one event is
\* on the bus.
C13_Witness ==
    /\ lastCall.op = "checkEscalation"
    /\ lastCall.ids = <<>>
    /\ \E i \in 1..Len(stored) :
          /\ stored[i].status = "planted"
          /\ stored[i].escalated
          /\ 2 * (stored[i].expiresAt - now) < stored[i].expiresAt - stored[i].plantedAt
          /\ eventsAbout(bus, "seed.escalated", stored[i].id) = 1

\* The stored seed with the given id.
seedById(seedId) == stored[findSeed(stored, seedId)]

\* C14: getActive returns exactly the planted seeds, the red ones first and
\* then by ascending expiresAt, whatever the mix of red, yellow and green
\* seeds, with and without a database.
C14_ActiveRedFirstThenExpiry ==
    lastCall.op = "getActive"
    => /\ {lastCall.ids[k] : k \in 1..Len(lastCall.ids)}
            = {stored[i].id : i \in {j \in 1..Len(stored) : stored[j].status = "planted"}}
       /\ Len(lastCall.ids) = Cardinality({j \in 1..Len(stored) : stored[j].status = "planted"})
       /\ \A k, l \in 1..Len(lastCall.ids) :
             k < l
             => /\ seedById(lastCall.ids[l]).zone = "red" => seedById(lastCall.ids[k]).zone = "red"
                /\ (seedById(lastCall.ids[k]).zone = "red") = (seedById(lastCall.ids[l]).zone = "red")
                   => seedById(lastCall.ids[k]).expiresAt <= seedById(lastCall.ids[l]).expiresAt

\* Without a database: a yellow seed is returned before a green one that
\* expires earlier.
C14_MemoryYellowBeforeEarlierGreen ==
    /\ ~dbAvailable
    /\ lastCall.op = "getActive"
    /\ Len(lastCall.ids) = 2
    /\ seedById(lastCall.ids[1]).zone = "yellow"
    /\ seedById(lastCall.ids[2]).zone = "green"
    /\ seedById(lastCall.ids[2]).expiresAt < seedById(lastCall.ids[1]).expiresAt

\* With a database: a red seed is returned after a seed that is not red.
C14_DatabaseRedAfterOther ==
    /\ dbAvailable
    /\ lastCall.op = "getActive"
    /\ Len(lastCall.ids) = 2
    /\ seedById(lastCall.ids[1]).zone # "red"
    /\ seedById(lastCall.ids[2]).zone = "red"

-----------------------------------------------------------------------------
\* The persistence sink.

\* C17: a write to the persistence sink that fails during plant,
\* checkEscalation or harvest never aborts the operation: the call returns
\* normally, the in-memory seed reflects the change and the bus event of the
\* operation is published all the same.
C17_SinkFailureNeverAborts ==
    [][lastCall'.op \in {"plant", "checkEscalation", "harvest"}
        => /\ lastCall'.ret = TRUE
           /\ lastCall'.op = "plant"
              => /\ Len(seeds') = Len(seeds) + 1
                 /\ seeds'[Len(seeds')].id = lastCall'.id
                 /\ eventsAbout(bus', "seed.planted", lastCall'.id) = 1
           /\ (lastCall'.op = "harvest" /\ findSeed(stored, lastCall'.id) # 0)
              => /\ stored'[findSeed(stored, lastCall'.id)].status = "harvested"
                 /\ eventsAbout(bus', "seed.harvested", lastCall'.id)
                      = eventsAbout(bus, "seed.harvested", lastCall'.id) + 1]_vars

\* Without a database the file write of plant threw: the seed is in
\* this.seeds, the call did not return and seed.planted was never published.
C17_PlantAborted ==
    /\ ~dbAvailable
    /\ lastCall.op = "plant"
    /\ 1 \in lastCall.fails
    /\ ~lastCall.ret
    /\ seeds[Len(seeds)].id = lastCall.id
    /\ eventsAbout(bus, "seed.planted", lastCall.id) = 0

\* With a database the failed insert of plant is caught: the call returns and
\* seed.planted is published, the row is missing.
C17_PlantSurvivesInsertFailure ==
    /\ dbAvailable
    /\ lastCall.op = "plant"
    /\ 1 \in lastCall.fails
    /\ lastCall.ret
    /\ findSeed(dbSeeds, lastCall.id) = 0
    /\ eventsAbout(bus, "seed.planted", lastCall.id) = 1

-----------------------------------------------------------------------------
\* Classification followed by seed evaluation.

\* The emails evaluated: those of ClassifyEmails whose only noise, if any, is
\* the newsletter pattern, with and without an opportunity keyword in
\* subject or snippet.
EvaluateEmails ==
    {[e EXCEPT !.offer = offer] :
        e \in {c \in ClassifyEmails : ~c.seasonal /\ ~c.autoNotif /\ ~c.marketing},
        offer \in BOOLEAN}

InitEvaluate ==
    /\ SMInit
    /\ BusInit
    /\ busImpl = "ts"
    /\ SyncIdle
    /\ lastCall = [op |-> "none"]
    /\ now = 0
    /\ inbox \in {<<e>> : e \in EvaluateEmails}
    /\ \E llmEnabled \in BOOLEAN, seen \in {0, FrequentAfter + 1} :
          classifier = [ClassifierNew(llmEnabled) EXCEPT !.senderHistory["s1"] = seen]
    /\ produced = <<>>
    /\ batch = EmptyBatch
    /\ trace = NoTrace
    /\ SeedIdle
    /\ InsightIdle
    /\ MirrorIdle
    /\ LimiterIdle

\* seedAgent.evaluate(email, classification) with the classification that
\* classify returned for the email.
Evaluate ==
    /\ lastCall.op = "classify"
    /\ produced # <<>>
    /\ \E elapsed \in 0..MaxTick :
          \E r \in {evaluate(seedAgent, dbAvailable, config, bus, busImpl, inbox[1],
                             produced[1], now, elapsed, NoFailure)} :
              /\ seeds' = r.agent.seeds
              /\ seedCounter' = r.agent.seedCounter
              /\ dbSeeds' = r.agent.rows
              /\ bus' = r.bus
              /\ now' = IF r.seed = <<>> THEN now ELSE now + elapsed
              /\ lastCall' = [op |-> "evaluate", arg |-> inbox[1].id, ret |-> ~r.threw,
                              ids |-> seedIds(r.seed)]
    /\ UNCHANGED <<smVars, busImpl, delivered, syncVars, classifyVars, config, dbAvailable,
                   insightVars, mirrorVars, limiterVars>>

NextEvaluate == ClassifyOne \/ Evaluate

SpecEvaluate == InitEvaluate /\ [][NextEvaluate]_vars

\* Whether the classification carries a signal of the type (and level).
hasSignal(classification, type, level) ==
    \E i \in 1..Len(classification.signals) :
        /\ classification.signals[i].type = type
        /\ level # "" => classification.signals[i].level = level

\* How many seed.planted events the bus holds.
plantedEvents == Cardinality({k \in 1..Len(bus.events) : bus.events[k].type = "seed.planted"})

\* C20: evaluate plants nothing when the classification is green with
\* confidence above 0.7.  Otherwise it plants the seed of the first rule that
\* matches: high urgency -> decision-needed; vip-sender or an opportunity
\* keyword -> opportunity; a thread reply or medium urgency -> follow-up;
\* frequent-sender and zone not green -> relationship-build; zone red ->
\* follow-up; no rule -> nothing.  Every red classification yields a planted
\* seed and exactly one seed.planted event.
C20_EvaluateFirstMatchingRule ==
    lastCall.op = "evaluate"
    => LET c == produced[1]
           e == inbox[1]
           nothing == seeds = <<>> /\ lastCall.ids = <<>> /\ plantedEvents = 0
           planted(type) ==
               /\ Len(seeds) = 1
               /\ seeds[1].type = type
               /\ seeds[1].status = "planted"
               /\ lastCall.ids = <<seeds[1].id>>
               /\ plantedEvents = 1
               /\ eventsAbout(bus, "seed.planted", seeds[1].id) = 1
       IN  /\ IF c.zone = "green" /\ c.confidence > 70 THEN nothing
              ELSE IF hasSignal(c, "urgency", "high") THEN planted("decision-needed")
              ELSE IF hasSignal(c, "vip-sender", "") \/ e.offer THEN planted("opportunity")
              ELSE IF e.reply \/ hasSignal(c, "urgency", "medium") THEN planted("follow-up")
              ELSE IF hasSignal(c, "frequent-sender", "") /\ c.zone # "green"
                   THEN planted("relationship-build")
              ELSE IF c.zone = "red" THEN planted("follow-up")
              ELSE nothing
           /\ c.zone = "red" => Len(seeds) = 1 /\ plantedEvents = 1

\* A red classification that matches none of the signal rules (a sender on
\* the precision list, forced to red) got its follow-up seed.
C20_Witness ==
    /\ lastCall.op = "evaluate"
    /\ produced[1].zone = "red"
    /\ ~hasSignal(produced[1], "urgency", "")
    /\ ~hasSignal(produced[1], "vip-sender", "")
    /\ ~hasSignal(produced[1], "frequent-sender", "")
    /\ ~inbox[1].offer
    /\ ~inbox[1].reply
    /\ Len(seeds) = 1
    /\ seeds[1].type = "follow-up"
    /\ plantedEvents = 1

\* A green classification with confidence above 0.7 whose email carries an
\* opportunity keyword: nothing was planted.
C20_GreenConfidentSkipped ==
    /\ lastCall.op = "evaluate"
    /\ produced[1].zone = "green"
    /\ produced[1].confidence > 70
    /\ inbox[1].offer
    /\ seeds = <<>>

-----------------------------------------------------------------------------
\* Mirror agent: reviews and evolution.

\* config.agents.mirror.reviewCycle
ReviewCycles == {2, 3}

\* The classification logs reviewed: empty; one confident yellow email (no
\* feedback); one confident red email (one entry); one red email of low
\* confidence (two entries).
ReviewSamples ==
    {<<>>,
     <<[zone |-> "yellow", confidence |-> 80]>>,
     <<[zone |-> "red", confidence |-> 80]>>,
     <<[zone |-> "red", confidence |-> 30]>>}

\* The seed statistics reviewed: nothing escalated (no feedback), and every
\* active seed escalated (one entry).
SeedStatsSamples ==
    {[total |-> 2, active |-> 2, escalated |-> 0, harvested |-> 0],
     [total |-> 2, active |-> 2, escalated |-> 2, harvested |-> 0]}

InitMirror ==
    /\ SMInit
    /\ BusInit
    /\ busImpl = "ts"
    /\ SyncIdle
    /\ ClassifierIdle
    /\ SeedIdle
    /\ InsightIdle
    /\ \E reviewCycle \in ReviewCycles : mirror = MirrorNew(reviewCycle)
    /\ LimiterIdle
    /\ lastCall = [op |-> "none"]
    /\ now = 0

seedReviews == Cardinality({i \in 1..Len(mirror.reviews) : mirror.reviews[i].agent = "seed"})

ReviewClassifications ==
    /\ mirror.cycleCount < MaxCycles
    /\ \E classifications \in ReviewSamples :
          \E r \in {reviewClassifications(mirror, bus, busImpl, classifications)} :
              /\ mirror' = r.mirror
              /\ bus' = r.bus
              /\ lastCall' = [op |-> "reviewClassifications", arg |-> "",
                              ret |-> r.review.evolution # <<>>]
    /\ UNCHANGED <<smVars, busImpl, delivered, now, syncVars, classifyVars, seedVars,
                   insightVars, limiterVars>>

ReviewSeeds ==
    /\ seedReviews < MaxSeedReviews
    /\ \E seedStats \in SeedStatsSamples :
          \E r \in {reviewSeeds(mirror, bus, busImpl, seedStats)} :
              /\ mirror' = r.mirror
              /\ bus' = r.bus
              /\ lastCall' = [op |-> "reviewSeeds", arg |-> "", ret |-> FALSE]
    /\ UNCHANGED <<smVars, busImpl, delivered, now, syncVars, classifyVars, seedVars,
                   insightVars, limiterVars>>

NextMirror == ReviewClassifications \/ ReviewSeeds

SpecMirror == InitMirror /\ [][NextMirror]_vars

\* The classification reviews of the window of an evolution made at the
\* given cycle: the last reviewCycle cycles.
windowCycles(cycle) ==
    {i \in 1..Len(mirror.reviews) :
        /\ mirror.reviews[i].agent = "classify"
        /\ mirror.reviews[i].cycleNumber > cycle - mirror.reviewCycle
        /\ mirror.reviews[i].cycleNumber <= cycle}

\* In how many cycles of the window the feedback type occurred.
cyclesWith(cycle, type) ==
    Cardinality({i \in windowCycles(cycle) :
                    \E k \in 1..Len(mirror.reviews[i].feedback) :
                        mirror.reviews[i].feedback[k] = type})

recommends(evolution, type) ==
    \E k \in 1..Len(evolution.recommendations) :
        /\ evolution.recommendations[k].priority = "high"
        /\ evolution.recommendations[k].type = type

\* C18: an evolution carries a high-priority recommendation for a feedback
\* type exactly when the type occurred in at least ceil(reviewCycle / 2) of
\* the review cycles of its window; several entries in one review and seed
\* reviews in between do not make it count for more cycles than it occurred in.
C18_RecommendsIffRecurringInCycles ==
    \A e \in 1..Len(mirror.evolutionLog) :
        \A type \in FeedbackTypes :
            recommends(mirror.evolutionLog[e], type)
            <=> cyclesWith(mirror.evolutionLog[e].cycle, type) >= ceilHalf(mirror.reviewCycle)

\* With reviewCycle 3 the type occurred in one cycle of the window only (two
\* entries in the same review), and the evolution recommends a structural fix.
C18_EntriesOfOneReviewCounted ==
    /\ mirror.reviewCycle = 3
    /\ seedReviews = 0
    /\ Len(mirror.evolutionLog) = 1
    /\ cyclesWith(3, "question") = 1
    /\ mirror.evolutionLog[1].feedbackPatterns["question"] = 2
    /\ recommends(mirror.evolutionLog[1], "question")

\* With reviewCycle 2 no classification review of the window raised any
\* feedback; the entry of a seed review in between is counted and recommended.
C18_SeedReviewCounted ==
    /\ mirror.reviewCycle = 2
    /\ Len(mirror.evolutionLog) = 1
    /\ cyclesWith(2, "question") = 0
    /\ recommends(mirror.evolutionLog[1], "question")

\* C19: evolve runs on exactly every N-th classification review: there are
\* floor(cycleCount / reviewCycle) Evolution records, a review carries an
\* evolution iff its cycleNumber is a multiple of reviewCycle, and
\* reviewSeeds neither advances cycleCount nor triggers evolve.
C19_EvolveEveryNthReview ==
    /\ [](/\ Len(mirror.evolutionLog) = mirror.cycleCount \div mirror.reviewCycle
          /\ \A i \in 1..Len(mirror.reviews) :
                mirror.reviews[i].evolution # <<>>
                <=> /\ mirror.reviews[i].agent = "classify"
                    /\ mirror.reviews[i].cycleNumber % mirror.reviewCycle = 0)
    /\ [][lastCall'.op = "reviewSeeds"
          => /\ mirror'.cycleCount = mirror.cycleCount
             /\ mirror'.evolutionLog = mirror.evolutionLog]_vars

\* Seed reviews were made between the classification reviews; the second
\* evolution has been recorded with the fourth review, the third has none.
C19_Witness ==
    /\ mirror.reviewCycle = 2
    /\ mirror.cycleCount = 4
    /\ seedReviews = MaxSeedReviews
    /\ Len(mirror.evolutionLog) = 2
    /\ mirror.reviews[Len(mirror.reviews)].cycleNumber = 4
    /\ mirror.reviews[Len(mirror.reviews)].evolution # <<>>
    /\ \E i \in 2..(Len(mirror.reviews) - 1) :
          /\ mirror.reviews[i].cycleNumber = 3
          /\ mirror.reviews[i].evolution = <<>>
          /\ mirror.reviews[i - 1].agent = "seed"
          /\ mirror.reviews[i + 1].agent = "seed"

-----------------------------------------------------------------------------
\* Insight agent: threads and insights.

HalfDayMs == 12 * HourMs

\* The dates emails carry and the times calls are made at.
InsightDates == {0, HalfDayMs, 3 * HalfDayMs}

\* The emails tracked: one thread, one sender, a red or a green
\* classification, any of the dates (emails need not arrive in date order).
InsightEmails ==
    [id : {"e1"}, threadId : {"t1"}, from : {"a"}, date : InsightDates]

InsightClassifications ==
    {[zone |-> zone, score |-> zoneToScore(zone)] : zone \in {"red", "green"}}

InitInsight ==
    /\ SMInit
    /\ BusInit
    /\ busImpl = "ts"
    /\ SyncIdle
    /\ ClassifierIdle
    /\ SeedIdle
    /\ MirrorIdle
    /\ LimiterIdle
    /\ insight = [threads |-> <<>>, insights |-> <<>>]
    /\ insightImpl \in {"ts", "js"}
    /\ lastCall = [op |-> "none"]
    /\ now = 0

messageCount ==
    IF insight.threads = <<>> THEN 0 ELSE Len(insight.threads[1].messages)

TrackThread ==
    /\ messageCount < MaxMessages
    /\ Len(insight.insights) < MaxInsights
    /\ \E email \in InsightEmails, classification \in InsightClassifications :
          \E r \in {trackThread(insight, bus, busImpl, insightImpl, email, classification, now)} :
              /\ insight' = r.insight
              /\ bus' = r.bus
              /\ lastCall' = [op |-> "trackThread", arg |-> email.threadId, ret |-> TRUE]
    /\ UNCHANGED <<smVars, busImpl, delivered, now, syncVars, classifyVars, seedVars,
                   insightImpl, mirrorVars, limiterVars>>

\* generateInsight called for the one thread.
GenerateInsight ==
    /\ Len(insight.insights) < MaxInsights
    /\ \E type \in {"hot-thread"} :
          \E r \in {generateInsight(insight, bus, busImpl, insightImpl, "t1", type, "info", now)} :
              /\ insight' = r.insight
              /\ bus' = r.bus
              /\ lastCall' = [op |-> "generateInsight", arg |-> type, ret |-> TRUE]
    /\ UNCHANGED <<smVars, busImpl, delivered, now, syncVars, classifyVars, seedVars,
                   insightImpl, mirrorVars, limiterVars>>

\* Twelve hours pass.
InsightAdvance ==
    /\ now < MaxInsightAdvances * HalfDayMs
    /\ now' = now + HalfDayMs
    /\ lastCall' = [op |-> "advance", arg |-> "", ret |-> TRUE]
    /\ UNCHANGED <<smVars, busVars, syncVars, classifyVars, seedVars, insightVars, mirrorVars, limiterVars>>

NextInsight == TrackThread \/ GenerateInsight \/ InsightAdvance

SpecInsight == InitInsight /\ [][NextInsight]_vars

generatedEvents ==
    Cardinality({k \in 1..Len(bus.events) : bus.events[k].type = "insight.generated"})

\* C15: generating an insight with the same (type, threadId) twice within 24
\* hours stores exactly one Insight and publishes exactly one
\* insight.generated event: no two stored insights of the same type and
\* thread are less than 24 hours apart, and there are as many
\* insight.generated events as stored insights.
C15_OneInsightPerDay ==
    /\ \A i, j \in 1..Len(insight.insights) :
          (/\ i < j
           /\ insight.insights[i].type = insight.insights[j].type
           /\ insight.insights[i].threadId = insight.insights[j].threadId)
          => insight.insights[j].createdAt - insight.insights[i].createdAt >= DayMs
    /\ generatedEvents = Len(insight.insights)

\* insight.ts: two messages twelve hours apart and then a third, all tracked
\* at the same time, have left two velocity-spike insights for the thread.
C15_SpikeStoredTwice ==
    /\ insightImpl = "ts"
    /\ lastCall.op = "trackThread"
    /\ messageCount = 3
    /\ Len(insight.insights) >= 2
    /\ insight.insights[1].type = "velocity-spike"
    /\ insight.insights[2].type = "velocity-spike"
    /\ insight.insights[1].createdAt = insight.insights[2].createdAt
    /\ generatedEvents = Len(insight.insights)

\* insight.js: a second generateInsight for the same type and thread twelve
\* hours after the first stored nothing.
C15_JsSuppressed ==
    /\ insightImpl = "js"
    /\ lastCall.op = "generateInsight"
    /\ lastCall.arg = "hot-thread"
    /\ now = HalfDayMs
    /\ Len(insight.insights) = 1
    /\ insight.insights[1].type = "hot-thread"
    /\ insight.insights[1].createdAt = 0
    /\ generatedEvents = 1

\* C16: a thread with exactly one message has velocity 0, and a thread with
\* n >= 2 messages whose earliest and latest dates are d > 0 days apart has
\* velocity n / d up to rounding (here: to within 0.05), whatever d is and
\* whatever order the messages were tracked in.
C16_VelocityIsMessagesPerDay ==
    \A i \in 1..Len(insight.threads) :
        LET thread == insight.threads[i]
            n == Len(thread.messages)
            dates == {thread.messages[k].date : k \in 1..n}
            earliest == CHOOSE d \in dates : \A o \in dates : d <= o
            latest == CHOOSE d \in dates : \A o \in dates : d >= o
            spanMin == (latest - earliest) \div MinuteMs
            off == thread.velocity * spanMin - n * 100 * 1440
        IN  /\ n = 1 => thread.velocity = 0
            /\ (n >= 2 /\ spanMin > 0) => (off <= 5 * spanMin /\ -off <= 5 * spanMin)

\* insight.ts: three messages tracked out of date order, spanning half a
\* day, have velocity 6.
C16_TsHalfDayOutOfOrder ==
    /\ insightImpl = "ts"
    /\ messageCount = 3
    /\ insight.threads[1].messages[1].date = HalfDayMs
    /\ insight.threads[1].messages[2].date = 0
    /\ insight.threads[1].messages[3].date = 0
    /\ insight.threads[1].velocity = 600

\* insight.js: two messages half a day apart have velocity 2, not 4.
C16_JsHalfDayClamped ==
    /\ insightImpl = "js"
    /\ messageCount = 2
    /\ insight.threads[1].messages[1].date = 0
    /\ insight.threads[1].messages[2].date = HalfDayMs
    /\ insight.threads[1].velocity = 200

-----------------------------------------------------------------------------
\* Classification: precision rules, counters, log.

\* C21: when a VIP precision rule with a subject filter matches the email,
\* the Classification classify returns has the rule's zone and that zone's
\* canonical score (red 85, yellow 60, green 30), with or without an LLM and
\* whatever the LLM answers.
C21_PrecisionRuleDecides ==
    (lastCall.op = "classify" /\ produced # <<>> /\ inbox[1].vip \in Zones)
    => /\ produced[1].zone = inbox[1].vip
       /\ produced[1].score = (CASE inbox[1].vip = "red" -> 85
                                 [] inbox[1].vip = "yellow" -> 60
                                 [] OTHER -> 30)

\* The rule forces green; the LLM, asked because one signal gives confidence
\* 0.65, answered red, and the Classification is red with method llm.
C21_LlmOverridesRule ==
    /\ lastCall.op = "classify"
    /\ inbox[1].vip = "green"
    /\ trace.llmCalled
    /\ produced[1].method = "llm"
    /\ produced[1].zone = "red"
    /\ produced[1].score = 85

\* Without an LLM the rule's zone and canonical score are returned.
C21_KeywordKeepsRule ==
    /\ lastCall.op = "classify"
    /\ inbox[1].vip = "red"
    /\ ~classifier.llmEnabled
    /\ produced[1].method = "keyword"
    /\ produced[1].zone = "red"
    /\ produced[1].score = 85

\* C22: every detectSignals call adds exactly one to the sender counter of
\* the email's sender and to the duplicate counter of its key, also when the
\* call ends early on a forced-zone rule.
C22_CountersCountEveryEmail ==
    [][(lastCall'.op = "classify" /\ lastCall'.ret)
        => /\ classifier'.senderHistory[inbox[1].sender]
                = classifier.senderHistory[inbox[1].sender] + 1
           /\ classifier'.subjectHistory[inbox[1].key]
                = classifier.subjectHistory[inbox[1].key] + 1]_vars

\* An email matched by a precision rule has been classified and neither
\* counter has moved from zero.
C22_ForcedZoneNotCounted ==
    /\ lastCall.op = "classify"
    /\ lastCall.ret
    /\ inbox[1].vip \in Zones
    /\ classifier.senderHistory[inbox[1].sender] = 0
    /\ classifier.subjectHistory[inbox[1].key] = 0

\* An email matched by no precision rule has been counted once in both maps.
C22_OrdinaryCounted ==
    /\ lastCall.op = "classify"
    /\ lastCall.ret
    /\ inbox[1].vip \notin Zones
    /\ classifier.senderHistory[inbox[1].sender] = 1
    /\ classifier.subjectHistory[inbox[1].key] = 1

-----------------------------------------------------------------------------
\* Bus: the order of delivery.

\* The handlers subscribed under one of the keys, in the order of their
\* subscribe calls.
subscribedUnder(b, keys) ==
    LET acc[i \in 0..Len(b.order)] ==
            IF i = 0 THEN <<>>
            ELSE IF b.order[i].type \in keys THEN Append(acc[i - 1], b.order[i].handler)
            ELSE acc[i - 1]
    IN  acc[Len(b.order)]

RECURSIVE isSubsequence(_, _)
isSubsequence(a, b) ==
    IF a = <<>> THEN TRUE
    ELSE IF b = <<>> THEN FALSE
    ELSE IF a[1] = b[1] THEN isSubsequence(Tail(a), Tail(b))
    ELSE isSubsequence(a, Tail(b))

isPrefix(a, b) == Len(a) <= Len(b) /\ a = SubSeq(b, 1, Len(a))

\* C23: the subscribers that receive a published event, under its type or
\* under '*', are invoked in the order in which they subscribed: one that
\* subscribed earlier is never invoked after one that subscribed later.
C23_InvokedInSubscriptionOrder ==
    [][(lastCall'.op = "publish" /\ bus'.counter = bus.counter + 1)
        => isSubsequence(delivered', subscribedUnder(bus, {lastCall'.arg, "*"}))]_vars

\* C23, amended: the handlers subscribed under the event's type are invoked
\* first, in the order they subscribed, and then the handlers subscribed
\* under '*', in the order they subscribed; the TypeScript bus invokes all of
\* them, the JavaScript bus stops after the first one that throws.
C23_TypeHandlersThenWildcard ==
    [][(lastCall'.op = "publish" /\ bus'.counter = bus.counter + 1)
        => /\ isPrefix(delivered', subscribedUnder(bus, {lastCall'.arg})
                                   \o subscribedUnder(bus, {"*"}))
           /\ busImpl = "ts"
              => Len(delivered') = Len(subscribedUnder(bus, {lastCall'.arg, "*"}))]_vars

\* A handler subscribed under '*' and then another under the type: the
\* event was handed to the second subscriber first.
C23_Witness ==
    /\ lastCall.op = "publish"
    /\ Len(bus.order) = 2
    /\ bus.order[1].type = "*"
    /\ bus.order[2].type = lastCall.arg
    /\ bus.order[1].handler # bus.order[2].handler
    /\ delivered = <<bus.order[2].handler, bus.order[1].handler>>

----------------------------------------------------------------------------
(* Repeated runSync calls *)

\* C24: whatever the earlier cycles ended in, the transition to SYNCING
\* that opens a runSync call is accepted, and the call proceeds to ingest with
\* the state machine in SYNCING.
C24_EverySyncStartsAccepted ==
    [][(pc = "none" /\ pc' = "ingest") =>
         (lastCall'.ret /\ state' = "SYNCING")]_vars

\* A runSync called after an earlier cycle ended has its first transition rejected.
C24_SecondSyncRejected ==
    /\ pc = "ingest"
    /\ runs = 2
    /\ syncFrom \in {"COMPLETE", "ERROR"}
    /\ lastCall = [op |-> "transition", arg |-> "SYNCING", ret |-> FALSE]
    /\ state = syncFrom

----------------------------------------------------------------------------
(* What batchClassify returns against the log and the bus *)

\* Whether the bus recorded an email.classified event that matches cl.
classifiedEventFor(b, cl) ==
    \E i \in 1..Len(b.events) :
        /\ b.events[i].type = "email.classified"
        /\ b.events[i].data.emailId = cl.emailId
        /\ b.events[i].data.zone = cl.zone
        /\ b.events[i].data.method = cl.method

\* C25: every Classification returned by batchClassify, the default of a
\* failed classify included, is in the classification log and has a matching
\* email.classified event on the bus.
C25_EveryResultLoggedAndPublished ==
    lastCall.op = "batchClassify"
    => \A i \in 1..Len(allEntries(batch)) :
          /\ includes(classifier.classifications, allEntries(batch)[i].classification)
          /\ classifiedEventFor(bus, allEntries(batch)[i].classification)

\* The same for the emails whose classify call returned.
C25_ClassifiedAreLoggedAndPublished ==
    lastCall.op = "batchClassify"
    => \A i \in 1..Len(allEntries(batch)) :
          ~allEntries(batch)[i].email.malformed
          => /\ includes(classifier.classifications, allEntries(batch)[i].classification)
             /\ classifiedEventFor(bus, allEntries(batch)[i].classification)

\* A batch of one failing email: the default is returned, nothing is logged
\* and only batch.classified is published.
C25_DefaultNotLogged ==
    /\ lastCall.op = "batchClassify"
    /\ Len(inbox) = 1
    /\ inbox[1].malformed
    /\ Len(batch.yellow) = 1
    /\ classifier.classifications = <<>>
    /\ Len(bus.events) = 1

----------------------------------------------------------------------------
(* The history as a path *)

\* Whether the records of h chain: each record starts where the previous ended.
chained(h) == \A i \in 2..Len(h) : h[i].from = h[i - 1].to

\* C26: after any sequence of transition and reset calls the history is a
\* contiguous path from IDLE to the current state: the first record starts at
\* IDLE, each record starts where the previous one ended, and the last record
\* ends at the current state.
C26_HistoryIsPathToCurrent ==
    history # <<>>
    => /\ history[1].from = "IDLE"
       /\ chained(history)
       /\ history[Len(history)].to = state

\* As long as reset has not been called the history is such a path.
C26_PathUntilReset ==
    /\ history # <<>> /\ (\A i \in 1..Len(bus.events) : bus.events[i].type # "state.reset")
       => /\ history[1].from = "IDLE"
          /\ chained(history)
          /\ history[Len(history)].to = state
    /\ history # <<>> => history[1].from = "IDLE"

\* A reset in SYNCING followed by a new transition to SYNCING: two records
\* that do not chain.
C26_ResetBreaksChain ==
    /\ Len(history) = 2
    /\ history[1].to = "SYNCING"
    /\ history[2].from = "IDLE"
    /\ state = "SYNCING"

----------------------------------------------------------------------------
(* The first and last message times of a thread *)

messageDates(thread) == {thread.messages[k].date : k \in 1..Len(thread.messages)}

\* C27: whatever the order the emails of a thread were tracked in, the
\* thread's firstMessageAt is the earliest and its lastMessageAt the latest
\* date among its messages, so firstMessageAt <= lastMessageAt.
C27_FirstEarliestLastLatest ==
    \A i \in 1..Len(insight.threads) :
        LET thread == insight.threads[i]
        IN  /\ \A d \in messageDates(thread) :
                  thread.firstMessageAt <= d /\ d <= thread.lastMessageAt
            /\ thread.firstMessageAt \in messageDates(thread)
            /\ thread.lastMessageAt \in messageDates(thread)
            /\ thread.firstMessageAt <= thread.lastMessageAt

\* What the code keeps instead: the date of the first email tracked and the
\* date of the last email tracked.
C27_FirstTrackedLastTracked ==
    \A i \in 1..Len(insight.threads) :
        LET thread == insight.threads[i]
        IN  /\ thread.firstMessageAt = thread.messages[1].date
            /\ thread.lastMessageAt = thread.messages[Len(thread.messages)].date

\* A later email tracked before an earlier one: firstMessageAt is after
\* lastMessageAt.
C27_OutOfOrder ==
    /\ messageCount = 2
    /\ insight.threads[1].messages[1].date = HalfDayMs
    /\ insight.threads[1].messages[2].date = 0
    /\ insight.threads[1].firstMessageAt = HalfDayMs
    /\ insight.threads[1].lastMessageAt = 0

----------------------------------------------------------------------------
(* The path counters against the log *)

\* getStats: the three path counters and the length of the log.
getStats(c) ==
    [keyword |-> c.stats.keyword, llm |-> c.stats.llm, fallback |-> c.stats.fallback,
     total |-> Len(c.classifications)]

logged(c, method) ==
    Cardinality({i \in 1..Len(c.classifications) : c.classifications[i].method = method})

\* C28: the three path counters add up to the number of classifications in
\* the log (getStats().total): every logged classification is counted under
\* exactly one of keyword, llm and fallback.
C28_CountersPartitionLog ==
    getStats(classifier).keyword + getStats(classifier).llm + getStats(classifier).fallback
        = getStats(classifier).total

\* When the LLM did not fail, the counters add up to the log and the keyword
\* and llm counters count the logged classifications of their method.
C28_PartitionUnlessLlmFailed ==
    getStats(classifier).fallback = 0
    => /\ getStats(classifier).keyword + getStats(classifier).llm = getStats(classifier).total
       /\ getStats(classifier).keyword = logged(classifier, "keyword")
       /\ getStats(classifier).llm = logged(classifier, "llm")

\* One email whose LLM call failed: one logged classification, counted under
\* fallback and under keyword.
C28_FallbackCountedTwice ==
    /\ lastCall.op = "classify"
    /\ trace.llmCalled
    /\ Len(classifier.classifications) = 1
    /\ classifier.stats = [keyword |-> 1, llm |-> 0, fallback |-> 1]

----------------------------------------------------------------------------
(* Seeds past their expiry *)

unharvested(arr) == {i \in 1..Len(arr) : arr[i].status # "harvested"}

\* C29: no seed ever has the status 'expired': every seed, in memory and in
\* the table, is planted or harvested, and a seed that was not harvested is
\* returned by getActive and counted as active by getStats, also after its
\* expiresAt has passed.
C29_NoSeedExpires ==
    /\ \A i \in 1..Len(seeds) : seeds[i].status \in {"planted", "harvested"}
    /\ \A i \in 1..Len(dbSeeds) : dbSeeds[i].status \in {"planted", "harvested"}
    /\ \A i \in unharvested(stored) :
          includes(seedIds(getActive(seedAgent, dbAvailable, NoFailure)), stored[i].id)
    /\ getSeedStats(seedAgent, dbAvailable, NoFailure).active
          = Cardinality(unharvested(stored))

\* C29 witness: getActive has just returned a seed whose expiresAt has passed.
C29_Witness ==
    /\ lastCall.op = "getActive"
    /\ \E i \in 1..Len(stored) :
          /\ stored[i].expiresAt < now
          /\ stored[i].status = "planted"
          /\ includes(lastCall.ids, stored[i].id)
          /\ getSeedStats(seedAgent, dbAvailable, NoFailure).active >= 1

----------------------------------------------------------------------------
(* RateLimiter.wait under interleaved callers *)

\* The clock moves in steps of a second and a half.
LimiterTick == 1500

\* Date.now() when the process starts: after the epoch.
LimiterStart == LimiterTick

\* The limiters built: the default 15 requests per minute, and options.rpm = 60.
RpmChoices == {15, 60}

InitLimiter ==
    /\ SMInit
    /\ BusInit
    /\ busImpl = "ts"
    /\ SyncIdle
    /\ ClassifierIdle
    /\ SeedIdle
    /\ InsightIdle
    /\ MirrorIdle
    /\ \E rpm \in RpmChoices : limiter = RateLimiterNew(rpm)
    /\ waits = NoWaits
    /\ lastCall = [op |-> "none"]
    /\ now = LimiterStart

inFlight == Cardinality({c \in Callers : waits.sleeping[c]})

\* A caller enters wait(): it reads the clock and lastCall, and either goes to
\* sleep for waitMs or stamps lastCall and returns at once.
WaitCall ==
    /\ Len(waits.returned) + inFlight < MaxWaits
    /\ \E c \in Callers :
          /\ ~waits.sleeping[c]
          /\ \E ms \in {waitMs(limiter, now)} :
                IF ms > 0
                THEN /\ waits' = [waits EXCEPT !.sleeping[c] = TRUE, !.due[c] = now + ms,
                                               !.overlapped = @ \/ inFlight > 0]
                     /\ limiter' = limiter
                     /\ lastCall' = [op |-> "wait", arg |-> c, ret |-> FALSE]
                ELSE /\ waits' = [waits EXCEPT !.returned = Append(@, now),
                                               !.overlapped = @ \/ inFlight > 0]
                     /\ limiter' = stamp(limiter, now)
                     /\ lastCall' = [op |-> "wait", arg |-> c, ret |-> TRUE]
    /\ UNCHANGED <<smVars, busVars, now, syncVars, classifyVars, seedVars, insightVars, mirrorVars>>

\* The timer of a sleeping caller fires, at its due time or later: the caller
\* stamps lastCall and wait() returns.
TimerFires ==
    /\ \E c \in Callers :
          /\ waits.sleeping[c]
          /\ now >= waits.due[c]
          /\ waits' = [waits EXCEPT !.sleeping[c] = FALSE, !.returned = Append(@, now)]
          /\ limiter' = stamp(limiter, now)
          /\ lastCall' = [op |-> "resume", arg |-> c, ret |-> TRUE]
    /\ UNCHANGED <<smVars, busVars, now, syncVars, classifyVars, seedVars, insightVars, mirrorVars>>

LimiterAdvance ==
    /\ now < MaxLimiterTicks * LimiterTick
    /\ now' = now + LimiterTick
    /\ lastCall' = [op |-> "advance", arg |-> "", ret |-> TRUE]
    /\ UNCHANGED <<smVars, busVars, syncVars, classifyVars, seedVars, insightVars, mirrorVars,
                   limiterVars>>

NextLimiter == WaitCall \/ TimerFires \/ LimiterAdvance

SpecLimiter == InitLimiter /\ [][NextLimiter]_vars

gapsKept(returned, gap) ==
    \A i \in 1..Len(returned) : \A j \in (i + 1)..Len(returned) :
        returned[j] - returned[i] >= gap

\* C30: any two returns from wait() on the same limiter are at least minGapMs
\* apart, for every interleaving of the callers, also when a wait() is
\* invoked while an earlier one is still asleep.
C30_ReturnsKeepMinGap == gapsKept(waits.returned, limiter.minGapMs)

\* As long as no call was made while another one was asleep, the gap is kept.
C30_SequentialCallsKeepGap ==
    ~waits.overlapped => gapsKept(waits.returned, limiter.minGapMs)

\* Two callers went to sleep on the same lastCall and returned at the same time.
C30_TwoSleepersReturnTogether ==
    /\ waits.overlapped
    /\ Len(waits.returned) = 3
    /\ waits.returned[2] = waits.returned[3]
    /\ waits.returned[2] - waits.returned[1] = limiter.minGapMs

====
